---- MODULE Spec2Model ----
(***************************************************************************)
(* A model of the EddyPro batch processor: scenario generation            *)
(* (scenarios.py), the scenario/batch executor (core.py), the scenarios   *)
(* command (cli.py), the run-manifest writer (report.py) and the          *)
(* performance monitor (monitor.py).                                      *)
(***************************************************************************)
EXTENDS Integers, Sequences, FiniteSets, TLC

(***************************************************************************)
(* Bounds of the model.                                                    *)
(***************************************************************************)
\* the largest number of parameters in an options map
MaxKeys == 2
\* the largest cap (max_scenarios) passed to generate_scenarios
MaxCap == 4

\* the number of chunks json.dump writes for a run manifest
ManifestChunks == 2

\* the number of times start_monitoring starts a sampling thread
MaxStarts == 2
\* the longest time (seconds) a monitored operation runs between
\* start_monitoring and stop_monitoring
MaxRun == 2

\* the largest number of rows in a metadata log
MaxRows == 2
\* the moments of a year an effective date can name
DateSlots == 2
\* the year of the earliest effective date of a metadata log
FirstYear == 2020

(***************************************************************************)
(* Constants of the program.                                               *)
(***************************************************************************)
\* stop_monitoring: self._monitor_thread.join(timeout=2.0), in seconds
JoinTimeout == 2

VARIABLES
    gPhase,     \* scenario generation: "input" before the call, "done" after
    gOptions,   \* parameter_options: [keys: insertion order, vals: name -> list]
    gCap,       \* max_scenarios
    gResult     \* what generate_scenarios returned or raised

VARIABLES
    pc,                   \* where the scenarios command is
    args,                 \* the command line and configuration of the run
    exit_code,            \* <<>> while running, <<code>> once cmd_scenarios returned
    scenario_list,        \* cmd_scenarios: the generated scenarios
    year_idx,             \* cmd_scenarios: position in the loop over the years
    all_scenario_results, \* cmd_scenarios: the results of all years
    batch_idx,            \* run_scenario_batch: position in scenario_list
    scenario_results,     \* run_scenario_batch: the results of this batch
    metadata,             \* run_single_scenario: the result record it returns
    stages,               \* run_eddypro_with_monitoring: <<stage, return code, child>> of each subprocess run
    success,              \* run_eddypro_with_monitoring: its success flag
    scenario_files,       \* files and directories written by the scenarios
    manifest,             \* cmd_scenarios: the run manifest built for the report
    manifest_file,        \* run_manifest.json on disk
    observed              \* what a concurrent reader of run_manifest.json read

VARIABLES
    interval_seconds,  \* PerformanceMonitor.interval_seconds
    monitoring,        \* PerformanceMonitor._monitoring
    monitor_thread,    \* PerformanceMonitor._monitor_thread: 0 is None
    samples,           \* PerformanceMonitor._samples
    mpc,               \* where the thread that calls the monitor is
    tpc,               \* where each sampling thread is in _monitor_loop
    tsleep,            \* the time each sampling thread has left to sleep
    join_timer,        \* the time stop_monitoring has waited in join
    run_timer,         \* the time the monitored operation has run
    starts,            \* the number of monitoring periods started
    summary,           \* stop_monitoring: the summary of the current period
    last_call,         \* the last call on the monitor and how it ended
    metrics_csv,       \* the metrics CSV file on disk
    summary_json,      \* the summary JSON file on disk
    has_process,       \* whether PerformanceMonitor._process is set
    child_alive        \* whether the process the caller monitors is running

VARIABLES
    selPhase,   \* metadata selection: "input" before the call, "done" after
    selLog,     \* the rows of the metadata log, in file order
    selSite,    \* site_id
    selYear,    \* the target year
    selResult   \* what the selection returned or raised

VARIABLES
    colPhase,       \* taking one sample: "input" before the call, "done" after
    colFailing,     \* the psutil calls that raise
    colHasProcess,  \* whether self._process is set
    colAlive,       \* whether the monitored process is running
    colSample       \* what _collect_sample returned

genVars == <<gPhase, gOptions, gCap, gResult>>

cmdVars == <<pc, args, exit_code, scenario_list, year_idx, all_scenario_results,
             batch_idx, scenario_results, metadata, stages, success,
             scenario_files, manifest, manifest_file, observed>>

monVars == <<interval_seconds, monitoring, monitor_thread, samples, mpc, tpc,
             tsleep, join_timer, run_timer, starts, summary, last_call,
             metrics_csv, summary_json, has_process, child_alive>>

selVars == <<selPhase, selLog, selSite, selYear, selResult>>

colVars == <<colPhase, colFailing, colHasProcess, colAlive, colSample>>

VARIABLES
    statPhase,    \* summary statistics: "collect" while samples arrive, "done" after
    statSamples,  \* self._samples, each sample a map from numeric field to value
    statSummary   \* what _generate_summary returned

statVars == <<statPhase, statSamples, statSummary>>

\* the state of the program's objects
progVars == <<genVars, cmdVars, monVars, selVars, colVars>>

VARIABLES
    iniPhase,   \* a project document: "template", "patched", "repatched"
    iniDoc,     \* the ConfigParser document
    iniClock,   \* datetime.now(), in seconds
    iniCalls    \* the calls made on the document, with the document before
                \* and after each

iniVars == <<iniPhase, iniDoc, iniClock, iniCalls>>

VARIABLES
    valPhase,    \* validation: "input" before the call, "done" after
    valCall,     \* the function that was called
    valEntries,  \* the <<name, value>> pairs passed to it
    valResult    \* what it returned or raised

valVars == <<valPhase, valCall, valEntries, valResult>>

VARIABLES
    sumPhase,   \* configuration checksums: "run" while invocations are made
    sumRuns     \* the invocations: configuration, hash secret of the process
                \* and the checksum recorded

sumVars == <<sumPhase, sumRuns>>

VARIABLES
    runPc,        \* run_subprocess_with_monitoring: the statement it is at
    runMonitor,   \* whether create_monitor returned a monitor
    runStream,    \* stream_output
    runChild,     \* what the child process does
    runExitCode,  \* the exit code of the child
    runFlag,      \* monitor._monitoring
    runCalls,     \* the start and stop calls that took effect
    runRaised,    \* whether an exception is propagating
    runResult     \* the value returned

runVars == <<runPc, runMonitor, runStream, runChild, runExitCode, runFlag,
             runCalls, runRaised, runResult>>

\* the state of the calls of the program's functions
pureVars == <<statVars, iniVars, valVars, sumVars, runVars>>

\* what a call of one function leaves alone
outsideStat == <<progVars, iniVars, valVars, sumVars, runVars>>

outsideIni == <<progVars, statVars, valVars, sumVars, runVars>>

outsideVal == <<progVars, statVars, iniVars, sumVars, runVars>>

outsideSum == <<progVars, statVars, iniVars, valVars, runVars>>

outsideRun == <<progVars, statVars, iniVars, valVars, sumVars>>

vars == <<genVars, cmdVars, monVars, selVars, colVars, pureVars>>

(***************************************************************************)
(* Helpers on sequences.                                                   *)
(***************************************************************************)
Range(s) == {s[i] : i \in DOMAIN s}

NoRepeat(s) == \A i, j \in DOMAIN s : i # j => s[i] # s[j]

\* all sequences over S of length at most n without a repeated element
DistinctSeqs(S, n) ==
    UNION {{s \in [1..k -> S] : NoRepeat(s)} : k \in 0..n}

(***************************************************************************)
(* Parameter names.  Python orders strings lexicographically; LexOrder     *)
(* lists the names the program knows in that order.                        *)
(***************************************************************************)
LexOrder == <<"despike_meth", "despike_vm", "detrend_meth", "rot_meth", "tlag_meth">>

ParamNames == Range(LexOrder)

LexRank(name) == CHOOSE i \in DOMAIN LexOrder : LexOrder[i] = name

\* ini_tools.PARAMETER_VALIDATION: the names the validator recognizes and
\* their allowed values
PARAMETER_VALIDATION ==
    [rot_meth |-> {1, 3}, tlag_meth |-> {2, 4},
     detrend_meth |-> {0, 1}, despike_meth |-> {0, 1}]

\* the value lists an options map may hold (any list of integers is accepted
\* by generate_scenarios; the empty list is rejected by it)
ValueLists == {<<>>, <<0>>, <<1>>, <<1, 1>>, <<1, 3>>, <<3, 1>>}

(***************************************************************************)
(* sorted(parameter_options.keys()): insertion sort by lexicographic rank. *)
(***************************************************************************)
RECURSIVE InsertSorted(_, _)
InsertSorted(name, s) ==
    IF s = <<>> THEN <<name>>
    ELSE IF LexRank(name) <= LexRank(Head(s)) THEN <<name>> \o s
    ELSE <<Head(s)>> \o InsertSorted(name, Tail(s))

\* a generator that forgets to sort: the names in insertion order
SortedUnsorted(keys) == keys

RECURSIVE sorted(_)
sorted(keys) ==
    IF keys = <<>> THEN <<>>
    ELSE InsertSorted(Head(keys), sorted(Tail(keys)))

(***************************************************************************)
(* scenarios.generate_scenario_suffix                                      *)
(***************************************************************************)
param_order == <<"rot_meth", "tlag_meth", "detrend_meth", "despike_vm">>

param_abbrev ==
    [rot_meth |-> "rot", tlag_meth |-> "tlag",
     detrend_meth |-> "det", despike_vm |-> "spk"]

\* "_".join(parts)
RECURSIVE Join(_)
Join(parts) ==
    IF parts = <<>> THEN ""
    ELSE IF Len(parts) = 1 THEN parts[1]
    ELSE parts[1] \o "_" \o Join(Tail(parts))

\* the loop over param_order: one token abbrev+value for each name of
\* param_order that is a key of parameters
RECURSIVE SuffixPartsFrom(_, _)
SuffixPartsFrom(order, parameters) ==
    IF order = <<>> THEN <<>>
    ELSE (IF Head(order) \in DOMAIN parameters
          THEN <<param_abbrev[Head(order)] \o ToString(parameters[Head(order)])>>
          ELSE <<>>)
         \o SuffixPartsFrom(Tail(order), parameters)

suffix_parts(parameters) == SuffixPartsFrom(param_order, parameters)

generate_scenario_suffix(parameters) ==
    IF DOMAIN parameters = {} THEN ""
    ELSE IF suffix_parts(parameters) # <<>>
         THEN "_" \o Join(suffix_parts(parameters))
         ELSE ""

(***************************************************************************)
(* scenarios.generate_scenarios                                            *)
(***************************************************************************)
\* itertools.product(*lists): the rightmost list varies fastest
RECURSIVE PrependEach(_, _)
PrependEach(x, combos) ==
    IF combos = <<>> THEN <<>>
    ELSE <<(<<x>> \o Head(combos))>> \o PrependEach(x, Tail(combos))

RECURSIVE ProductOver(_, _)
ProductOver(values, rest) ==
    IF values = <<>> THEN <<>>
    ELSE PrependEach(Head(values), rest) \o ProductOver(Tail(values), rest)

\* a Cartesian product in which the leftmost list varies fastest
RECURSIVE AppendEach(_, _)
AppendEach(combos, x) ==
    IF combos = <<>> THEN <<>>
    ELSE <<Append(Head(combos), x)>> \o AppendEach(Tail(combos), x)

RECURSIVE ProductOverLeft(_, _)
ProductOverLeft(rest, values) ==
    IF values = <<>> THEN <<>>
    ELSE AppendEach(rest, Head(values)) \o ProductOverLeft(rest, Tail(values))

RECURSIVE ProductLeftFastest(_)
ProductLeftFastest(lists) ==
    IF lists = <<>> THEN << <<>> >>
    ELSE ProductOverLeft(ProductLeftFastest(SubSeq(lists, 1, Len(lists) - 1)),
                         lists[Len(lists)])

RECURSIVE Product(_)
Product(lists) ==
    IF lists = <<>> THEN << <<>> >>
    ELSE ProductOver(Head(lists), Product(Tail(lists)))

\* total_combinations: the product of the list lengths
RECURSIVE TotalCombinations(_)
TotalCombinations(lists) ==
    IF lists = <<>> THEN 1
    ELSE Len(Head(lists)) * TotalCombinations(Tail(lists))

\* dict(zip(param_names, combination))
ZipDict(names, combination) ==
    [n \in Range(names) |->
        combination[CHOOSE i \in DOMAIN names : names[i] = n]]

\* the Scenario record built for the i-th combination (enumerate start=1)
ScenarioAt(names, combos, i) ==
    [parameters |-> ZipDict(names, combos[i]),
     suffix |-> generate_scenario_suffix(ZipDict(names, combos[i])),
     index |-> i]

\* Scenario.__post_init__ raises ValueError
ScenarioInvalid(s) ==
    \/ DOMAIN s.parameters = {}
    \/ s.suffix = ""
    \/ s.index < 1

CapExceeded(total, max_scenarios) == total > max_scenarios

generate_scenarios(parameter_options, max_scenarios) ==
    LET keys == parameter_options.keys
        param_names == sorted(keys)
        lists == [i \in DOMAIN param_names |-> parameter_options.vals[param_names[i]]]
        total == TotalCombinations(lists)
        combos == Product(lists)
        bad == {i \in DOMAIN combos : ScenarioInvalid(ScenarioAt(param_names, combos, i))}
        firstBad == CHOOSE i \in bad : \A j \in bad : i <= j
    IN  IF keys = <<>>
        THEN [status |-> "ValueError", scenarios |-> <<>>, constructed |-> 0]
        ELSE IF \E i \in DOMAIN keys : parameter_options.vals[keys[i]] = <<>>
        THEN [status |-> "ValueError", scenarios |-> <<>>, constructed |-> 0]
        ELSE IF CapExceeded(total, max_scenarios)
        THEN [status |-> "ScenarioLimitExceededError", scenarios |-> <<>>,
              constructed |-> 0]
        ELSE IF bad # {}
        THEN [status |-> "ValueError", scenarios |-> <<>>,
              constructed |-> firstBad - 1]
        ELSE [status |-> "ok",
              scenarios |-> [i \in DOMAIN combos |-> ScenarioAt(param_names, combos, i)],
              constructed |-> Len(combos)]

(***************************************************************************)
(* Scenario generation as a state machine: the inputs are drawn in Init,   *)
(* the call is one action.                                                 *)
(***************************************************************************)
OptionMaps ==
    UNION {{[keys |-> ks, vals |-> f] : f \in [Range(ks) -> ValueLists]}
           : ks \in DistinctSeqs(ParamNames, MaxKeys)}

NoResult == [status |-> "none", scenarios |-> <<>>, constructed |-> 0]

InitGen ==
    /\ gPhase = "input"
    /\ gOptions \in OptionMaps
    /\ gCap \in 1..MaxCap
    /\ gResult = NoResult

GenerateScenarios ==
    /\ gPhase = "input"
    /\ gResult' = generate_scenarios(gOptions, gCap)
    /\ gPhase' = "done"
    /\ UNCHANGED <<gOptions, gCap, cmdVars, monVars, selVars, colVars, pureVars>>

NextGen == GenerateScenarios

\* no call of generate_scenarios under way
GenIdle ==
    /\ gPhase = "idle"
    /\ gOptions = [keys |-> <<>>, vals |-> <<>>]
    /\ gCap = 1
    /\ gResult = NoResult

(***************************************************************************)
(* ini_tools.validate_parameter: the name must be recognized, the value    *)
(* coercible to an integer and the integer allowed.  A Python value is a   *)
(* record of its type (kind), its number (an int, or a float in tenths)    *)
(* and its text (a str).                                                   *)
(***************************************************************************)
PyInt(n) == [kind |-> "int", n |-> n, text |-> ""]

PyFloat(tenths) == [kind |-> "float", n |-> tenths, text |-> ""]

PyStr(text) == [kind |-> "str", n |-> 0, text |-> text]

\* None, a list, float("nan") and float("inf")
PyOther(kind) == [kind |-> kind, n |-> 0, text |-> ""]

\* the integers a text of the model can spell
Spelled == 0..4

\* int(text): the text, stripped of blanks, spells an integer
IntOfText(text) ==
    IF \E n \in Spelled : text \in {ToString(n), " " \o ToString(n) \o " "}
    THEN [outcome |-> "ok",
          value |-> CHOOSE n \in Spelled :
                        text \in {ToString(n), " " \o ToString(n) \o " "}]
    ELSE [outcome |-> "ValueError", value |-> 0]

\* int(value): an int is itself, a float is truncated towards zero, a text
\* is parsed; None and a list raise TypeError, nan raises ValueError and an
\* infinite float raises OverflowError
int_of(value) ==
    CASE value.kind = "int" -> [outcome |-> "ok", value |-> value.n]
      [] value.kind = "float" ->
             [outcome |-> "ok",
              value |-> IF value.n >= 0 THEN value.n \div 10
                        ELSE 0 - ((0 - value.n) \div 10)]
      [] value.kind = "str" -> IntOfText(value.text)
      [] value.kind \in {"None", "list"} -> [outcome |-> "TypeError", value |-> 0]
      [] value.kind = "nan" -> [outcome |-> "ValueError", value |-> 0]
      [] value.kind = "inf" -> [outcome |-> "OverflowError", value |-> 0]

\* what validate_parameter does: return int_value or raise error
Valid(int_value) == [ok |-> TRUE, value |-> int_value, error |-> "none"]

Invalid(error) == [ok |-> FALSE, value |-> 0, error |-> error]

\* validate_parameter: ValueError and TypeError of int(value) become
\* INIParameterError, any other exception of int(value) propagates
validate_parameter(param_name, value) ==
    IF param_name \notin DOMAIN PARAMETER_VALIDATION
    THEN Invalid("INIParameterError")
    ELSE IF int_of(value).outcome \in {"ValueError", "TypeError"}
    THEN Invalid("INIParameterError")
    ELSE IF int_of(value).outcome # "ok"
    THEN Invalid(int_of(value).outcome)
    ELSE IF int_of(value).value \notin PARAMETER_VALIDATION[param_name]
    THEN Invalid("INIParameterError")
    ELSE Valid(int_of(value).value)

\* ini_tools.validate_parameters on a dict of integers: it returns when
\* every entry is valid
validate_parameters(parameters) ==
    \A n \in DOMAIN parameters : validate_parameter(n, PyInt(parameters[n])).ok

\* ini_tools.validate_parameters, its loop over parameters.items(): entries
\* is the sequence of the <<name, value>> pairs of the dict.  The call
\* returns the validated dict or raises at the first invalid entry; checked
\* is the number of entries validate_parameter was called on.
RECURSIVE validate_entries(_, _, _)
validate_entries(entries, validated, checked) ==
    IF entries = <<>>
    THEN [ok |-> TRUE, validated |-> validated, error |-> "none", checked |-> checked]
    ELSE LET result == validate_parameter(Head(entries)[1], Head(entries)[2])
         IN IF ~result.ok
            THEN [ok |-> FALSE, validated |-> <<>>, error |-> result.error,
                  checked |-> checked + 1]
            ELSE validate_entries(Tail(entries),
                                  Append(validated, <<Head(entries)[1], result.value>>),
                                  checked + 1)

(***************************************************************************)
(* The scenarios command (cli.cmd_scenarios), the batch executor           *)
(* (core.run_scenario_batch), the scenario executor                        *)
(* (core.run_single_scenario), the two-stage pipeline                      *)
(* (core.run_eddypro_with_monitoring) and the manifest writer              *)
(* (report.write_run_manifest), as one sequential program with a program   *)
(* counter, and a concurrent reader of the run manifest.                   *)
(***************************************************************************)
\* the order in which cmd_scenarios inserts the options it was given
CliOrder == <<"rot_meth", "tlag_meth", "detrend_meth", "despike_vm">>

\* the command lines and configurations of the model
CliArgs ==
    [opts : [rot_meth : {<<>>, <<1>>, <<1, 3>>, <<2>>},
             tlag_meth : {<<>>, <<2>>},
             detrend_meth : {<<>>},
             despike_vm : {<<>>, <<0>>}],
     max_scenarios : {1, MaxCap},
     dry_run : BOOLEAN,
     stream_output : BOOLEAN,
     years : {<<>>, <<2021>>, <<2021, 2022>>}]

\* what one child process does: launching or reading it raises, or it
\* terminates with an exit code
ChildRuns == [raises : BOOLEAN, exit_code : {0, 1}]

\* a return value of run_subprocess_with_monitoring: <<code>> for an integer,
\* <<>> for None
None == <<>>

\* run_subprocess_with_monitoring: -1 when an exception is caught; otherwise
\* process.returncode, which wait() has set to the exit code of the child when
\* stream_output is false, and which is still None when stream_output is true,
\* for the loop over process.stdout neither waits for nor polls the child
run_subprocess_with_monitoring(stream_output, child) ==
    IF child.raises THEN <<-1>>
    ELSE IF stream_output THEN None
    ELSE <<child.exit_code>>

\* cmd_scenarios: the options map collected from the command line
CliGiven(n) == args.opts[n] # <<>>

parameter_options ==
    [keys |-> SelectSeq(CliOrder, CliGiven),
     vals |-> [n \in {m \in Range(CliOrder) : CliGiven(m)} |-> args.opts[n]]]

\* a command that does not validate the values of the options
ValidationSkipped(options) == TRUE

\* cmd_scenarios: every value of every option passes validate_parameter
OptionsPassValidation(options) ==
    \A n \in Range(options.keys) :
        \A i \in DOMAIN options.vals[n] :
            validate_parameter(n, PyInt(options.vals[n][i])).ok

NoMetadata ==
    [scenario_index |-> 0, scenario_suffix |-> "", output_dir |-> <<>>,
     success |-> FALSE, return_code |-> 0, has_error |-> FALSE, error |-> "",
     dry_run |-> FALSE]

NoManifest == [overall_success |-> FALSE, scenarios |-> <<>>]

AbsentFile == [exists |-> FALSE, content |-> "none", chunks |-> 0]

OldManifestFile == [exists |-> TRUE, content |-> "old", chunks |-> ManifestChunks]

InitCmd ==
    /\ pc = "cmd_start"
    /\ args \in CliArgs
    /\ exit_code = <<>>
    /\ scenario_list = <<>>
    /\ year_idx = 1
    /\ all_scenario_results = <<>>
    /\ batch_idx = 1
    /\ scenario_results = <<>>
    /\ metadata = NoMetadata
    /\ stages = <<>>
    /\ success = TRUE
    /\ scenario_files = {}
    /\ manifest = NoManifest
    /\ manifest_file \in {AbsentFile, OldManifestFile}
    /\ observed = <<>>

\* no scenarios command under way
CmdIdle ==
    /\ pc = "idle"
    /\ args = [opts |-> [rot_meth |-> <<>>, tlag_meth |-> <<>>,
                         detrend_meth |-> <<>>, despike_vm |-> <<>>],
               max_scenarios |-> 1, dry_run |-> FALSE, stream_output |-> FALSE,
               years |-> <<>>]
    /\ exit_code = <<>>
    /\ scenario_list = <<>>
    /\ year_idx = 1
    /\ all_scenario_results = <<>>
    /\ batch_idx = 1
    /\ scenario_results = <<>>
    /\ metadata = NoMetadata
    /\ stages = <<>>
    /\ success = TRUE
    /\ scenario_files = {}
    /\ manifest = NoManifest
    /\ manifest_file = AbsentFile
    /\ observed = <<>>

\* the year and the scenario being processed
year == args.years[year_idx]

scenario == scenario_list[batch_idx]

\* scenario_output_dir = output_base_dir / f"scenario{scenario.suffix}"
scenario_output_dir == <<year, scenario.suffix>>

File(name) == [dir |-> scenario_output_dir, name |-> name]

\* run_eddypro_with_monitoring: eddypro_path = output_dir.parent, the output
\* base directory of the year, where tmp and bin are created
eddypro_path == <<year>>

BaseFile(name) == [dir |-> eddypro_path, name |-> name]

\* return 1 from cmd_scenarios
ReturnFailure ==
    /\ exit_code' = <<1>>
    /\ pc' = "exit"

\* cmd_scenarios up to the generation of the scenarios: collect the options,
\* validate every value, generate the Cartesian product
CmdGenerate ==
    /\ pc = "cmd_start"
    /\ LET generated == generate_scenarios(parameter_options, args.max_scenarios)
       IN  IF \/ parameter_options.keys = <<>>
              \/ ~OptionsPassValidation(parameter_options)
              \/ generated.status # "ok"
           THEN ReturnFailure /\ UNCHANGED scenario_list
           ELSE /\ scenario_list' = generated.scenarios
                /\ pc' = "cmd_config"
                /\ UNCHANGED exit_code
    /\ UNCHANGED <<genVars, monVars, selVars, colVars, pureVars, args, year_idx, all_scenario_results, batch_idx,
                   scenario_results, metadata, stages, success, scenario_files,
                   manifest, manifest_file, observed>>

\* cmd_scenarios: load and validate the configuration (SystemExit is turned
\* into return 1), then require a site and years
CmdLoadConfig ==
    /\ pc = "cmd_config"
    /\ \E config_ok \in BOOLEAN :
           IF ~config_ok \/ args.years = <<>>
           THEN ReturnFailure
           ELSE pc' = "year_loop" /\ UNCHANGED exit_code
    /\ UNCHANGED <<genVars, monVars, selVars, colVars, pureVars, args, scenario_list, year_idx, all_scenario_results,
                   batch_idx, scenario_results, metadata, stages, success,
                   scenario_files, manifest, manifest_file, observed>>

\* cmd_scenarios: one turn of the loop over the years, up to the call of
\* run_scenario_batch
CmdYear ==
    /\ pc = "year_loop"
    /\ IF year_idx > Len(args.years)
       THEN /\ pc' = "report"
            /\ UNCHANGED <<exit_code, year_idx, batch_idx, scenario_results>>
       ELSE \E input_dir_exists, template_exists \in BOOLEAN :
                IF ~input_dir_exists
                THEN /\ year_idx' = year_idx + 1
                     /\ UNCHANGED <<pc, exit_code, batch_idx, scenario_results>>
                ELSE IF ~template_exists
                THEN ReturnFailure /\ UNCHANGED <<year_idx, batch_idx, scenario_results>>
                ELSE /\ pc' = "scn_start"
                     /\ batch_idx' = 1
                     /\ scenario_results' = <<>>
                     /\ UNCHANGED <<exit_code, year_idx>>
    /\ UNCHANGED <<genVars, monVars, selVars, colVars, pureVars, args, scenario_list, all_scenario_results, metadata, stages,
                   success, scenario_files, manifest, manifest_file, observed>>

\* run_single_scenario: create the scenario's output directory
ScnStart ==
    /\ pc = "scn_start"
    /\ scenario_files' = scenario_files \cup {File("dir")}
    /\ pc' = "scn_patch"
    /\ UNCHANGED <<genVars, monVars, selVars, colVars, pureVars, args, exit_code, scenario_list, year_idx, all_scenario_results,
                   batch_idx, scenario_results, metadata, stages, success,
                   manifest, manifest_file, observed>>

\* the record the except branch of run_single_scenario builds; it is not
\* written to the scenario manifest file
ExceptMetadata(error) ==
    [scenario_index |-> scenario.index, scenario_suffix |-> scenario.suffix,
     output_dir |-> scenario_output_dir, success |-> FALSE, return_code |-> -1,
     has_error |-> TRUE, error |-> error, dry_run |-> args.dry_run]

\* run_single_scenario: read the template, validate and patch the parameters,
\* materialize the metadata files, select the metadata row, patch paths,
\* project metadata and date ranges, write the project file
ScnPatch ==
    /\ pc = "scn_patch"
    /\ \E outcome \in {"ok", "template", "metadata"} :
           IF outcome = "template" \/ ~validate_parameters(scenario.parameters)
           THEN /\ metadata' = ExceptMetadata("template")
                /\ pc' = "scn_return"
                /\ UNCHANGED scenario_files
           ELSE IF outcome = "metadata"
           THEN /\ metadata' = ExceptMetadata("metadata")
                /\ pc' = "scn_return"
                /\ scenario_files' = scenario_files \cup {File("metadata")}
           ELSE /\ pc' = "scn_preflight"
                /\ scenario_files' = scenario_files \cup {File("metadata"), File("project")}
                /\ UNCHANGED metadata
    /\ UNCHANGED <<genVars, monVars, selVars, colVars, pureVars, args, exit_code, scenario_list, year_idx, all_scenario_results,
                   batch_idx, scenario_results, stages, success, manifest,
                   manifest_file, observed>>

\* a scenario executor that runs the pipeline in dry-run mode too
DryRunIgnored(dry_run) == FALSE

\* run_single_scenario: if not dry_run, the pipeline is run; otherwise the
\* execution is skipped
SkipExecution(dry_run) == dry_run

\* run_single_scenario: the two preflight validators, then the choice
\* between running the pipeline and the dry run
ScnPreflight ==
    /\ pc = "scn_preflight"
    /\ \E preflight_ok \in BOOLEAN :
           IF ~preflight_ok
           THEN /\ metadata' = ExceptMetadata("preflight")
                /\ pc' = "scn_return"
                /\ UNCHANGED success
           ELSE IF SkipExecution(args.dry_run)
           THEN /\ success' = TRUE
                /\ pc' = "scn_finish"
                /\ UNCHANGED metadata
           ELSE /\ pc' = "eddy_setup"
                /\ UNCHANGED <<metadata, success>>
    /\ UNCHANGED <<genVars, monVars, selVars, colVars, pureVars, args, exit_code, scenario_list, year_idx, all_scenario_results,
                   batch_idx, scenario_results, stages, scenario_files, manifest,
                   manifest_file, observed>>

\* run_eddypro_with_monitoring: create tmp and bin, copy the binaries, check
\* that both executables exist; any failure returns False
EddySetup ==
    /\ pc = "eddy_setup"
    /\ stages' = <<>>
    /\ scenario_files' = scenario_files \cup {BaseFile("tmp"), BaseFile("bin")}
    /\ \E binaries_ok \in BOOLEAN :
           IF binaries_ok
           THEN success' = TRUE /\ pc' = "eddy_rp"
           ELSE success' = FALSE /\ pc' = "scn_finish"
    /\ UNCHANGED <<genVars, monVars, selVars, colVars, pureVars, args, exit_code, scenario_list, year_idx, all_scenario_results,
                   batch_idx, scenario_results, metadata, manifest,
                   manifest_file, observed>>

\* run_eddypro_with_monitoring: eddypro_fcc follows eddypro_rp whatever the
\* return code of eddypro_rp
AfterRp(rp_return_code) == "eddy_fcc"

\* run_eddypro_with_monitoring: run eddypro_rp
EddyRp ==
    /\ pc = "eddy_rp"
    /\ \E child \in ChildRuns :
           LET rp_return_code == run_subprocess_with_monitoring(args.stream_output, child)
           IN  /\ stages' = Append(stages, <<"rp", rp_return_code, child>>)
               /\ success' = (rp_return_code = <<0>>)
               /\ pc' = AfterRp(rp_return_code)
    /\ UNCHANGED <<genVars, monVars, selVars, colVars, pureVars, args, exit_code, scenario_list, year_idx, all_scenario_results,
                   batch_idx, scenario_results, metadata, scenario_files, manifest,
                   manifest_file, observed>>

\* run_eddypro_with_monitoring: run eddypro_fcc
EddyFcc ==
    /\ pc = "eddy_fcc"
    /\ \E child \in ChildRuns :
           LET fcc_return_code == run_subprocess_with_monitoring(args.stream_output, child)
           IN  /\ stages' = Append(stages, <<"fcc", fcc_return_code, child>>)
               /\ success' = (success /\ fcc_return_code = <<0>>)
    /\ pc' = "eddy_cleanup"
    /\ UNCHANGED <<genVars, monVars, selVars, colVars, pureVars, args, exit_code, scenario_list, year_idx, all_scenario_results,
                   batch_idx, scenario_results, metadata, scenario_files, manifest,
                   manifest_file, observed>>

\* run_eddypro_with_monitoring: remove bin, then tmp (a failure is logged and
\* leaves what was not yet removed) and return success
EddyCleanup ==
    /\ pc = "eddy_cleanup"
    /\ \E removed \in {{}, {BaseFile("bin")}, {BaseFile("bin"), BaseFile("tmp")}} :
           scenario_files' = scenario_files \ removed
    /\ pc' = "scn_finish"
    /\ UNCHANGED <<genVars, monVars, selVars, colVars, pureVars, args, exit_code, scenario_list, year_idx, all_scenario_results,
                   batch_idx, scenario_results, metadata, stages, success,
                   manifest, manifest_file, observed>>

\* run_single_scenario: build the result record and write it to the
\* scenario manifest file
ScnFinish ==
    /\ pc = "scn_finish"
    /\ metadata' =
           [scenario_index |-> scenario.index, scenario_suffix |-> scenario.suffix,
            output_dir |-> scenario_output_dir, success |-> success,
            return_code |-> IF success THEN 0 ELSE 1,
            has_error |-> FALSE, error |-> "", dry_run |-> args.dry_run]
    /\ scenario_files' = scenario_files \cup {File("manifest")}
    /\ pc' = "scn_return"
    /\ UNCHANGED <<genVars, monVars, selVars, colVars, pureVars, args, exit_code, scenario_list, year_idx, all_scenario_results,
                   batch_idx, scenario_results, stages, success, manifest,
                   manifest_file, observed>>

\* a batch loop that stops at the first failed scenario
BatchStopsOnFailure(result) == result.success

\* run_scenario_batch: the loop goes on whatever the result
BatchContinues(result) == TRUE

\* run_scenario_batch: run_single_scenario returned; append its result and
\* go on with the next scenario
BatchAppend ==
    /\ pc = "scn_return"
    /\ scenario_results' = Append(scenario_results, metadata)
    /\ IF batch_idx < Len(scenario_list) /\ BatchContinues(metadata)
       THEN batch_idx' = batch_idx + 1 /\ pc' = "scn_start"
       ELSE pc' = "batch_done" /\ UNCHANGED batch_idx
    /\ stages' = <<>>
    /\ success' = TRUE
    /\ UNCHANGED <<genVars, monVars, selVars, colVars, pureVars, args, exit_code, scenario_list, year_idx, all_scenario_results,
                   metadata, scenario_files, manifest, manifest_file, observed>>

\* cmd_scenarios: run_scenario_batch returned; collect its results
CmdCollect ==
    /\ pc = "batch_done"
    /\ all_scenario_results' = all_scenario_results \o scenario_results
    /\ year_idx' = year_idx + 1
    /\ pc' = "year_loop"
    /\ UNCHANGED <<genVars, monVars, selVars, colVars, pureVars, args, exit_code, scenario_list, batch_idx, scenario_results,
                   metadata, stages, success, scenario_files, manifest,
                   manifest_file, observed>>

\* cmd_scenarios: the entry of the run manifest for one result
ManifestEntry(result) ==
    [scenario_index |-> result.scenario_index,
     scenario_suffix |-> result.scenario_suffix,
     success |-> result.success]

\* all(r["success"] for r in all_scenario_results)
OverallSuccess(results) == \A i \in DOMAIN results : results[i].success

\* cmd_scenarios: build the run manifest when there are results; an exception
\* on the way is logged and the command goes on
CmdReport ==
    /\ pc = "report"
    /\ IF all_scenario_results = <<>>
       THEN pc' = "cmd_return" /\ UNCHANGED manifest
       ELSE \E report_ok \in BOOLEAN :
                IF report_ok
                THEN /\ manifest' =
                            [overall_success |-> OverallSuccess(all_scenario_results),
                             scenarios |-> [i \in DOMAIN all_scenario_results |->
                                               ManifestEntry(all_scenario_results[i])]]
                     /\ pc' = "manifest_open"
                ELSE pc' = "cmd_return" /\ UNCHANGED manifest
    /\ UNCHANGED <<genVars, monVars, selVars, colVars, pureVars, args, exit_code, scenario_list, year_idx, all_scenario_results,
                   batch_idx, scenario_results, metadata, stages, success,
                   scenario_files, manifest_file, observed>>

\* write_run_manifest: output_path.open("w") creates or truncates the target
OpenForWriting(file) == [exists |-> TRUE, content |-> "new", chunks |-> 0]

ManifestOpen ==
    /\ pc = "manifest_open"
    /\ manifest_file' = OpenForWriting(manifest_file)
    /\ pc' = "manifest_write"
    /\ UNCHANGED <<genVars, monVars, selVars, colVars, pureVars, args, exit_code, scenario_list, year_idx, all_scenario_results,
                   batch_idx, scenario_results, metadata, stages, success,
                   scenario_files, manifest, observed>>

\* write_run_manifest: json.dump writes the next chunk; after the last one the
\* file is closed; an exception while writing is logged and the file is left
\* as it is
ManifestWrite ==
    /\ pc = "manifest_write"
    /\ \E write_ok \in BOOLEAN :
           IF write_ok
           THEN /\ manifest_file' = [manifest_file EXCEPT !.chunks = @ + 1]
                /\ pc' = IF manifest_file.chunks + 1 = ManifestChunks
                         THEN "cmd_return" ELSE "manifest_write"
           ELSE /\ pc' = "cmd_return"
                /\ UNCHANGED manifest_file
    /\ UNCHANGED <<genVars, monVars, selVars, colVars, pureVars, args, exit_code, scenario_list, year_idx, all_scenario_results,
                   batch_idx, scenario_results, metadata, stages, success,
                   scenario_files, manifest, observed>>

\* cmd_scenarios: the final return
CmdReturn ==
    /\ pc = "cmd_return"
    /\ exit_code' = <<0>>
    /\ pc' = "exit"
    /\ UNCHANGED <<genVars, monVars, selVars, colVars, pureVars, args, scenario_list, year_idx, all_scenario_results,
                   batch_idx, scenario_results, metadata, stages, success,
                   scenario_files, manifest, manifest_file, observed>>

\* another process reads run_manifest.json (once, at any moment)
ReaderRead ==
    /\ pc # "idle"
    /\ observed = <<>>
    /\ observed' = <<manifest_file>>
    /\ UNCHANGED <<genVars, monVars, selVars, colVars, pureVars, pc, args, exit_code, scenario_list, year_idx,
                   all_scenario_results, batch_idx, scenario_results, metadata,
                   stages, success, scenario_files, manifest, manifest_file>>

NextCmd ==
    \/ CmdGenerate
    \/ CmdLoadConfig
    \/ CmdYear
    \/ ScnStart
    \/ ScnPatch
    \/ ScnPreflight
    \/ EddySetup
    \/ EddyRp
    \/ EddyFcc
    \/ EddyCleanup
    \/ ScnFinish
    \/ BatchAppend
    \/ CmdCollect
    \/ CmdReport
    \/ ManifestOpen
    \/ ManifestWrite
    \/ CmdReturn
    \/ ReaderRead

(***************************************************************************)
(* Claims about scenario generation.                                       *)
(***************************************************************************)
\* the permutations of a sequence without repeats
PermutationsOf(s) ==
    {t \in [DOMAIN s -> Range(s)] : Range(t) = Range(s)}

\* the keys of the options map in lexicographic order, stated without the
\* sorting algorithm
LexSortedKeys ==
    CHOOSE t \in PermutationsOf(gOptions.keys) :
        \A i, j \in DOMAIN t : i < j => LexRank(t[i]) < LexRank(t[j])

OptionsValid ==
    /\ gOptions.keys # <<>>
    /\ \A k \in Range(gOptions.keys) : gOptions.vals[k] # <<>>

\* product(len(values)) over the parameters of the options map
RECURSIVE LenProduct(_)
LenProduct(ks) ==
    IF ks = <<>> THEN 1 ELSE Len(gOptions.vals[Head(ks)]) * LenProduct(Tail(ks))

\* C7: for a non-empty options map with non-empty value lists,
\* generate_scenarios returns exactly product(len(values)) scenarios when the
\* product is at most the cap, and fails with ScenarioLimitExceededError,
\* having constructed no scenario, when the product exceeds the cap.
C7_CardinalityOrLimit ==
    (gPhase = "done" /\ OptionsValid) =>
        IF LenProduct(gOptions.keys) <= gCap
        THEN /\ gResult.status = "ok"
             /\ Len(gResult.scenarios) = LenProduct(gOptions.keys)
        ELSE /\ gResult.status = "ScenarioLimitExceededError"
             /\ gResult.constructed = 0

\* C8: generate_scenarios does not depend on the insertion order of the keys:
\* the call on any reordering of the same options map gives the same outcome,
\* the same scenarios position by position (parameters, suffix, index).
C8_OrderIndependent ==
    gPhase = "done" =>
        \A ks \in PermutationsOf(gOptions.keys) :
            generate_scenarios([keys |-> ks, vals |-> gOptions.vals], gCap) = gResult

\* C8 witness: a completed call on a two-parameter map whose keys were
\* inserted in non-lexicographic order and that returned four scenarios
C8_Witness ==
    /\ gPhase = "done"
    /\ gResult.status = "ok"
    /\ Len(gOptions.keys) = 2
    /\ gOptions.keys # LexSortedKeys
    /\ Len(gResult.scenarios) = 4

\* the suffix the claim describes for parameters the validator recognizes:
\* one token per parameter in the order rotation, time-lag, detrend,
\* spike-removal
ClaimedOrder == <<"rot_meth", "tlag_meth", "detrend_meth", "despike_meth">>

ClaimedAbbrev ==
    [rot_meth |-> "rot", tlag_meth |-> "tlag",
     detrend_meth |-> "det", despike_meth |-> "spk"]

RECURSIVE ClaimedParts(_, _)
ClaimedParts(order, parameters) ==
    IF order = <<>> THEN <<>>
    ELSE (IF Head(order) \in DOMAIN parameters
          THEN <<ClaimedAbbrev[Head(order)] \o ToString(parameters[Head(order)])>>
          ELSE <<>>)
         \o ClaimedParts(Tail(order), parameters)

ClaimedSuffix(parameters) == "_" \o Join(ClaimedParts(ClaimedOrder, parameters))

\* C9: the suffix of a parameter set holds one token (abbreviation and value)
\* for every parameter of the set, in the canonical order, joined and prefixed
\* by underscores; {rot_meth: 3, despike_meth: 0} gives _rot3_spk0.
C9_SuffixHasEveryParameter ==
    (gPhase = "done" /\ gResult.status = "ok") =>
        \A i \in DOMAIN gResult.scenarios :
            DOMAIN gResult.scenarios[i].parameters \subseteq DOMAIN PARAMETER_VALIDATION
                => gResult.scenarios[i].suffix
                       = ClaimedSuffix(gResult.scenarios[i].parameters)

\* C29: for options whose names are all accepted by the parameter validator
\* (and whose product is within the cap), generate_scenarios succeeds and
\* the scenarios have pairwise distinct, non-empty suffixes, so that their
\* output directories scenario<suffix> are pairwise distinct.
C29_DistinctNonEmptySuffixes ==
    (/\ gPhase = "done"
     /\ OptionsValid
     /\ Range(gOptions.keys) \subseteq DOMAIN PARAMETER_VALIDATION
     /\ LenProduct(gOptions.keys) <= gCap) =>
        /\ gResult.status = "ok"
        /\ \A i \in DOMAIN gResult.scenarios : gResult.scenarios[i].suffix # ""
        /\ \A i, j \in DOMAIN gResult.scenarios :
               i # j => gResult.scenarios[i].suffix # gResult.scenarios[j].suffix

\* the value the Cartesian-product enumeration over the lexicographically
\* sorted names gives parameter number j at position i (counting from 1):
\* the last name varies fastest
RECURSIVE StrideAfter(_, _)
StrideAfter(names, j) ==
    IF j >= Len(names) THEN 1
    ELSE Len(gOptions.vals[names[j + 1]]) * StrideAfter(names, j + 1)

EnumeratedValue(names, i, j) ==
    gOptions.vals[names[j]]
        [(((i - 1) \div StrideAfter(names, j)) % Len(gOptions.vals[names[j]])) + 1]

\* C10: in the returned list the scenario at position i has index i, and the
\* positions follow the Cartesian-product enumeration order over the
\* lexicographically sorted parameter names.
C10_IndexIsPosition ==
    (gPhase = "done" /\ gResult.status = "ok") =>
        \A i \in DOMAIN gResult.scenarios :
            /\ gResult.scenarios[i].index = i
            /\ DOMAIN gResult.scenarios[i].parameters = Range(gOptions.keys)
            /\ \A j \in DOMAIN LexSortedKeys :
                   gResult.scenarios[i].parameters[LexSortedKeys[j]]
                       = EnumeratedValue(LexSortedKeys, i, j)

\* C10 witness: a completed call that returned four scenarios for two
\* parameters with two distinct values each
C10_Witness ==
    /\ gPhase = "done"
    /\ gResult.status = "ok"
    /\ Len(gResult.scenarios) = 4
    /\ \A k \in Range(gOptions.keys) : gOptions.vals[k] \in {<<1, 3>>, <<3, 1>>}
    /\ gResult.scenarios[4].index = 4

(***************************************************************************)
(* Claims about the scenarios command and the batch.                       *)
(***************************************************************************)
\* C1: eddypro_fcc is started only if eddypro_rp returned 0: when
\* run_eddypro_with_monitoring returns after a first stage with a non-zero
\* code, exactly one subprocess stage was invoked and the run is unsuccessful.
C1_FccOnlyAfterRpSuccess ==
    (pc = "scn_finish" /\ stages # <<>> /\ stages[1][2] # <<0>>) =>
        (Len(stages) = 1 /\ ~success)

\* C2: run_scenario_batch returns one result per scenario, in input order,
\* whatever scenarios fail, every scenario has been executed (its output
\* directory exists), and a run manifest built from results of which one
\* failed has overall_success false.
C2_BatchContinues ==
    /\ pc = "batch_done" =>
           /\ Len(scenario_results) = Len(scenario_list)
           /\ \A i \in DOMAIN scenario_list :
                  /\ scenario_results[i].scenario_index = scenario_list[i].index
                  /\ scenario_results[i].scenario_suffix = scenario_list[i].suffix
                  /\ [dir |-> <<year, scenario_list[i].suffix>>, name |-> "dir"]
                         \in scenario_files
    /\ (pc \in {"manifest_open", "manifest_write"}
            /\ \E i \in DOMAIN all_scenario_results : ~all_scenario_results[i].success)
           => ~manifest.overall_success

\* C2 witness: a batch of two scenarios has returned, the first failed by a
\* caught exception and the second succeeded
C2_Witness ==
    /\ pc = "batch_done"
    /\ Len(scenario_list) = 2
    /\ Len(scenario_results) = 2
    /\ scenario_results[1].has_error
    /\ scenario_results[2].success

\* the complete new manifest on disk
NewManifestFile == [exists |-> TRUE, content |-> "new", chunks |-> ManifestChunks]

\* C4: a reader of run_manifest.json running concurrently with the write sees
\* the file absent, its previous complete content or the complete new
\* manifest, never a partially written document.
C4_ReaderNeverSeesPartial ==
    observed # <<>> => observed[1] \in {AbsentFile, OldManifestFile, NewManifestFile}

\* C5: when run_single_scenario returns to the batch loop, whether the
\* scenario succeeded or failed, its result record has been written to the
\* scenario's manifest file.
C5_ResultWrittenBeforeReturn ==
    pc = "scn_return" => File("manifest") \in scenario_files

\* C6: the exit code of the scenarios command is non-zero whenever an
\* executed scenario has success false.
C6_ExitCodeReflectsFailure ==
    (pc = "exit" /\ \E i \in DOMAIN all_scenario_results :
                        ~all_scenario_results[i].success)
        => exit_code # <<0>>

\* the product of the numbers of values of the options given on the command
\* line
RECURSIVE CliCombinations(_)
CliCombinations(names) ==
    IF names = <<>> THEN 1
    ELSE (IF args.opts[Head(names)] = <<>> THEN 1 ELSE Len(args.opts[Head(names)]))
         * CliCombinations(Tail(names))

\* the command line gives no option, gives a value that is not allowed or a
\* parameter that is not recognized, or asks for more combinations than the cap
CliRejected ==
    \/ \A n \in Range(CliOrder) : args.opts[n] = <<>>
    \/ \E n \in Range(CliOrder) : \E i \in DOMAIN args.opts[n] :
           \/ n \notin DOMAIN PARAMETER_VALIDATION
           \/ args.opts[n][i] \notin PARAMETER_VALIDATION[n]
    \/ CliCombinations(CliOrder) > args.max_scenarios

\* C12: when parameter validation or scenario generation fails, the
\* scenarios command returns failure before any scenario is executed and
\* before any output directory, project file or manifest is created.
C12_FailsBeforeAnyWork ==
    (pc # "idle" /\ CliRejected) =>
        /\ pc \in {"cmd_start", "exit"}
        /\ pc = "exit" => exit_code = <<1>>
        /\ scenario_files = {}
        /\ stages = <<>>
        /\ scenario_results = <<>>
        /\ all_scenario_results = <<>>
        /\ manifest_file.content # "new"

\* C12 witness: a command with a value that is not allowed, years to process
\* and a sufficient cap has returned
C12_Witness ==
    /\ pc = "exit"
    /\ args.opts.rot_meth = <<2>>
    /\ args.years # <<>>
    /\ args.max_scenarios = MaxCap
    /\ exit_code = <<1>>


C14_ReturnsExitCode ==
    /\ \A i \in DOMAIN stages :
           /\ ~stages[i][3].raises => stages[i][2] = <<stages[i][3].exit_code>>
           /\ stages[i][2] = <<-1>> => stages[i][3].raises
    /\ (pc = "eddy_cleanup"
            /\ \A i \in DOMAIN stages :
                   ~stages[i][3].raises /\ stages[i][3].exit_code = 0)
           => success

\* the places of the command where one scenario is being executed
ExecutingScenario ==
    pc \in {"scn_start", "scn_patch", "scn_preflight", "eddy_setup", "eddy_rp",
            "eddy_fcc", "eddy_cleanup", "scn_finish"}

\* C15: while one scenario is executed, files are created or deleted only
\* inside the output directory of that scenario, so the paths two distinct
\* scenarios create or delete are disjoint.
C15_WritesOnlyOwnDirectory ==
    [][\A f \in (scenario_files' \ scenario_files) \cup (scenario_files \ scenario_files') :
           ExecutingScenario /\ f.dir = scenario_output_dir]_vars

\* C16: for every scenario result whose success flag is false, the entry of
\* that scenario in the run manifest reports the failure together with the
\* captured error text of the scenario.
C16_ManifestCarriesErrorText ==
    pc \in {"manifest_open", "manifest_write"} =>
        \A i \in DOMAIN all_scenario_results :
            ~all_scenario_results[i].success =>
                /\ i \in DOMAIN manifest.scenarios
                /\ ~manifest.scenarios[i].success
                /\ "error" \in DOMAIN manifest.scenarios[i]
                /\ manifest.scenarios[i].error = all_scenario_results[i].error

(***************************************************************************)
(* Taking one sample (PerformanceMonitor._collect_sample): the psutil      *)
(* calls the collectors make, each of which may raise, and the fields each *)
(* contributes to the sample.                                              *)
(***************************************************************************)
\* _collect_system_metrics: its psutil calls, in the order they are made
SystemCollectors ==
    <<"cpu_percent", "virtual_memory", "disk_io_counters", "net_io_counters">>

\* _collect_process_metrics: its psutil calls on the monitored process
ProcessCollectors ==
    {"process_cpu_percent", "memory_info", "memory_percent", "io_counters"}

Collectors == Range(SystemCollectors) \cup ProcessCollectors

\* the fields each call contributes to the sample
FieldsOf(collector) ==
    CASE collector = "cpu_percent" -> {"system_cpu_percent"}
      [] collector = "virtual_memory" ->
             {"system_memory_total", "system_memory_available", "system_memory_percent"}
      [] collector = "disk_io_counters" ->
             {"system_disk_read_bytes", "system_disk_write_bytes",
              "system_disk_read_count", "system_disk_write_count"}
      [] collector = "net_io_counters" ->
             {"system_network_bytes_sent", "system_network_bytes_recv"}
      [] collector = "process_cpu_percent" -> {"process_cpu_percent"}
      [] collector = "memory_info" -> {"process_memory_rss", "process_memory_vms"}
      [] collector = "memory_percent" -> {"process_memory_percent"}
      [] collector = "io_counters" ->
             {"process_io_read_bytes", "process_io_write_bytes",
              "process_io_read_count", "process_io_write_count"}

SystemFields == UNION {FieldsOf(c) : c \in Range(SystemCollectors)}

ProcessFields == UNION {FieldsOf(c) : c \in ProcessCollectors}

\* _collect_system_metrics: one try block around all the calls, so the first
\* call that raises ends the collection and the metrics gathered so far are
\* returned
RECURSIVE SystemMetricsFrom(_, _)
SystemMetricsFrom(calls, failing) ==
    IF calls = <<>> \/ Head(calls) \in failing
    THEN {}
    ELSE FieldsOf(Head(calls)) \cup SystemMetricsFrom(Tail(calls), failing)

collect_system_metrics(failing) == SystemMetricsFrom(SystemCollectors, failing)

\* _collect_process_metrics: None (and the process is forgotten) when the
\* process is no longer running or is_running raises; otherwise the metrics
\* of three try blocks: cpu_percent; memory_info followed by memory_percent;
\* io_counters
collect_process_metrics(process, alive, failing) ==
    IF ~process
    THEN [none |-> TRUE, metrics |-> {}, has_process |-> FALSE]
    ELSE IF "is_running" \in failing \/ ~alive
    THEN [none |-> TRUE, metrics |-> {}, has_process |-> FALSE]
    ELSE [none |-> FALSE,
          metrics |->
              (IF "process_cpu_percent" \in failing THEN {}
               ELSE FieldsOf("process_cpu_percent"))
              \cup (IF "memory_info" \in failing THEN {}
                    ELSE IF "memory_percent" \in failing THEN FieldsOf("memory_info")
                    ELSE FieldsOf("memory_info") \cup FieldsOf("memory_percent"))
              \cup (IF "io_counters" \in failing THEN {} ELSE FieldsOf("io_counters")),
          has_process |-> TRUE]

\* _collect_sample: the timestamps, the system metrics and, when a process
\* is monitored, its metrics
collect_sample(process, alive, failing) ==
    LET process_metrics == collect_process_metrics(process, alive, failing)
    IN  [fields |-> {"timestamp", "relative_time"}
                        \cup collect_system_metrics(failing)
                        \cup process_metrics.metrics,
         has_process |-> process_metrics.has_process]

(***************************************************************************)
(* The performance monitor (monitor.py): one PerformanceMonitor, the       *)
(* thread that calls start_monitoring and stop_monitoring on it, and the   *)
(* sampling threads it spawns.  Time is counted in seconds: Tick lets one  *)
(* second pass.  Reading the flag, collecting and appending a sample take  *)
(* no time, a sampling thread sleeps interval_seconds between samples, and *)
(* join gives up after JoinTimeout.                                        *)
(***************************************************************************)
\* the sampling threads one monitor can spawn: one per start_monitoring
Threads == 1..MaxStarts

\* the sampling intervals of the model, after the clamp of __init__: one
\* shorter and one longer than the join timeout of stop_monitoring
Intervals == {1, JoinTimeout + 1}

\* the summary before _generate_summary has run
NoSummary == [kind |-> "none", keys |-> {}, count |-> 0]

\* _generate_summary: the "No samples collected" record (it has no samples
\* entry: count is 0 here) or the statistics with samples.count
generate_summary(sample_list) ==
    IF sample_list = <<>>
    THEN [kind |-> "error", keys |-> {"error"}, count |-> 0]
    ELSE [kind |-> "ok",
          keys |-> {"monitoring_config", "timing", "samples", "metrics"},
          count |-> Len(sample_list)]

\* a file of the monitor that has not been written
AbsentOutput == [exists |-> FALSE, content |-> NoSummary]

\* _write_metrics_csv: nothing is written when there is no sample
write_metrics_csv(file, sample_list) ==
    IF sample_list = <<>>
    THEN file
    ELSE [exists |-> TRUE,
          content |-> [kind |-> "rows", keys |-> {}, count |-> Len(sample_list)]]

\* _write_summary_json
write_summary_json(file, s) == [exists |-> TRUE, content |-> s]

\* PerformanceMonitor.__init__
InitMon ==
    /\ interval_seconds \in Intervals
    /\ monitoring = FALSE
    /\ monitor_thread = 0
    /\ samples = <<>>
    /\ mpc = "ready"
    /\ tpc = [t \in Threads |-> "unborn"]
    /\ tsleep = [t \in Threads |-> 0]
    /\ join_timer = 0
    /\ run_timer = 0
    /\ starts = 0
    /\ summary = NoSummary
    /\ last_call = "none"
    /\ metrics_csv = AbsentOutput
    /\ summary_json = AbsentOutput
    /\ has_process = FALSE
    /\ child_alive = TRUE

\* no monitor exists
MonIdle ==
    /\ interval_seconds = 1
    /\ monitoring = FALSE
    /\ monitor_thread = 0
    /\ samples = <<>>
    /\ mpc = "idle"
    /\ tpc = [t \in Threads |-> "unborn"]
    /\ tsleep = [t \in Threads |-> 0]
    /\ join_timer = 0
    /\ run_timer = 0
    /\ starts = 0
    /\ summary = NoSummary
    /\ last_call = "none"
    /\ metrics_csv = AbsentOutput
    /\ summary_json = AbsentOutput
    /\ has_process = FALSE
    /\ child_alive = FALSE

\* start_monitoring: with a PID, self._process is psutil.Process(pid), or
\* None when the process does not exist; without a PID it is left as it was
attach_process(process_pid, process, alive) ==
    IF process_pid = "pid" THEN alive ELSE process

\* a start_monitoring that does not test the flag
AlreadyActiveIgnored(flag) == FALSE

\* start_monitoring: if self._monitoring, warn and return
AlreadyActive(flag) == flag

\* start_monitoring: a no-op while monitoring; otherwise it sets the flag,
\* clears the sample list and starts a new sampling thread
StartMonitoring ==
    /\ mpc = "ready"
    /\ IF AlreadyActive(monitoring)
       THEN /\ last_call' = "start_noop"
            /\ UNCHANGED <<monitoring, samples, monitor_thread, tpc, starts,
                           run_timer, summary, has_process>>
       ELSE /\ starts < MaxStarts
            /\ monitoring' = TRUE
            /\ samples' = <<>>
            /\ \E process_pid \in {"None", "pid"} :
                   has_process' = attach_process(process_pid, has_process, child_alive)
            /\ starts' = starts + 1
            /\ monitor_thread' = starts + 1
            /\ tpc' = [tpc EXCEPT ![starts + 1] = "check"]
            /\ run_timer' = 0
            /\ summary' = NoSummary
            /\ last_call' = "start"
    /\ UNCHANGED <<genVars, cmdVars, selVars, colVars, pureVars, child_alive, interval_seconds, mpc,
                   tsleep, join_timer, metrics_csv, summary_json>>

\* stop_monitoring, up to the join: a no-op returning {} while not
\* monitoring; otherwise it clears the flag and waits for the thread
StopMonitoring ==
    /\ mpc = "ready"
    /\ IF ~monitoring
       THEN /\ last_call' = "stop_noop"
            /\ UNCHANGED <<monitoring, mpc, join_timer>>
       ELSE /\ monitoring' = FALSE
            /\ mpc' = "stop_join"
            /\ join_timer' = 0
            /\ last_call' = "stop_running"
    /\ UNCHANGED <<genVars, cmdVars, selVars, colVars, pureVars, has_process, child_alive, interval_seconds, monitor_thread, samples, tpc,
                   tsleep, run_timer, starts, summary, metrics_csv, summary_json>>

\* stop_monitoring: join(timeout=2.0) returns when the thread has finished
\* or when the timeout has passed
JoinReturns ==
    /\ mpc = "stop_join"
    /\ \/ tpc[monitor_thread] = "done"
       \/ join_timer = JoinTimeout
    /\ mpc' = "stop_summary"
    /\ UNCHANGED <<genVars, cmdVars, selVars, colVars, pureVars, has_process, child_alive, interval_seconds, monitoring, monitor_thread,
                   samples, tpc, tsleep, join_timer, run_timer, starts, summary,
                   last_call, metrics_csv, summary_json>>

\* stop_monitoring: summary = self._generate_summary()
GenerateSummary ==
    /\ mpc = "stop_summary"
    /\ summary' = generate_summary(samples)
    /\ mpc' = "stop_csv"
    /\ UNCHANGED <<genVars, cmdVars, selVars, colVars, pureVars, has_process, child_alive, interval_seconds, monitoring, monitor_thread,
                   samples, tpc, tsleep, join_timer, run_timer, starts,
                   last_call, metrics_csv, summary_json>>

\* stop_monitoring: self._write_metrics_csv()
WriteMetricsCsv ==
    /\ mpc = "stop_csv"
    /\ metrics_csv' = write_metrics_csv(metrics_csv, samples)
    /\ mpc' = "stop_json"
    /\ UNCHANGED <<genVars, cmdVars, selVars, colVars, pureVars, has_process, child_alive, interval_seconds, monitoring, monitor_thread,
                   samples, tpc, tsleep, join_timer, run_timer, starts, summary,
                   last_call, summary_json>>

\* stop_monitoring: self._write_summary_json(summary); return summary
WriteSummaryJson ==
    /\ mpc = "stop_json"
    /\ summary_json' = write_summary_json(summary_json, summary)
    /\ mpc' = "ready"
    /\ last_call' = "stop"
    /\ UNCHANGED <<genVars, cmdVars, selVars, colVars, pureVars, has_process, child_alive, interval_seconds, monitoring, monitor_thread,
                   samples, tpc, tsleep, join_timer, run_timer, starts, summary,
                   metrics_csv>>

\* a loop that ends when the monitored process has exited
LoopEndsWithProcess(flag, alive) == flag /\ alive

\* _monitor_loop: while self._monitoring
LoopContinues(flag, alive) == flag

ThreadCheck(t) ==
    /\ tpc[t] = "check"
    /\ tpc' = [tpc EXCEPT ![t] = IF LoopContinues(monitoring, child_alive)
                                  THEN "collect" ELSE "done"]
    /\ UNCHANGED <<genVars, cmdVars, selVars, colVars, pureVars, has_process, child_alive, interval_seconds, monitoring, monitor_thread,
                   samples, mpc, tsleep, join_timer, run_timer, starts, summary,
                   last_call, metrics_csv, summary_json>>

\* the record the model keeps of a sample: the thread that took it, the
\* monitoring period, whether it carries process metrics, and whether the
\* monitored process had exited when it was taken
SampleRecord(t, sample) ==
    [thread |-> t, period |-> starts,
     scope |-> IF sample.fields \cap ProcessFields # {} THEN "process" ELSE "system",
     after_exit |-> ~child_alive]

\* _monitor_loop: a sample is collected and appended, then the thread sleeps
ThreadAppend(t) ==
    /\ tpc[t] = "collect"
    /\ LET sample == collect_sample(has_process, child_alive, {})
       IN  /\ samples' = Append(samples, SampleRecord(t, sample))
           /\ has_process' = sample.has_process
    /\ tpc' = [tpc EXCEPT ![t] = "sleep"]
    /\ tsleep' = [tsleep EXCEPT ![t] = interval_seconds]
    /\ UNCHANGED <<genVars, cmdVars, selVars, colVars, pureVars, child_alive, interval_seconds, monitoring, monitor_thread,
                   mpc, join_timer, run_timer, starts, summary, last_call,
                   metrics_csv, summary_json>>

\* _monitor_loop: _collect_sample returned None, nothing is appended, then
\* the thread sleeps
ThreadCollectFails(t) ==
    /\ tpc[t] = "collect"
    /\ tpc' = [tpc EXCEPT ![t] = "sleep"]
    /\ tsleep' = [tsleep EXCEPT ![t] = interval_seconds]
    /\ UNCHANGED <<genVars, cmdVars, selVars, colVars, pureVars, has_process, child_alive, interval_seconds, monitoring, monitor_thread,
                   samples, mpc, join_timer, run_timer, starts, summary, last_call,
                   metrics_csv, summary_json>>

\* _monitor_loop: time.sleep(self.interval_seconds) is over
ThreadWake(t) ==
    /\ tpc[t] = "sleep"
    /\ tsleep[t] = 0
    /\ tpc' = [tpc EXCEPT ![t] = "check"]
    /\ UNCHANGED <<genVars, cmdVars, selVars, colVars, pureVars, has_process, child_alive, interval_seconds, monitoring, monitor_thread,
                   samples, mpc, tsleep, join_timer, run_timer, starts, summary,
                   last_call, metrics_csv, summary_json>>

\* the process the caller monitors terminates
ChildExits ==
    /\ mpc # "idle"
    /\ child_alive
    /\ child_alive' = FALSE
    /\ UNCHANGED <<genVars, cmdVars, selVars, colVars, pureVars, has_process, interval_seconds, monitoring,
                   monitor_thread, samples, mpc, tpc, tsleep, join_timer, run_timer,
                   starts, summary, last_call, metrics_csv, summary_json>>

\* the monitored operation is running: the caller is between start_monitoring
\* and stop_monitoring
Running == mpc = "ready" /\ monitoring

\* one second passes: no thread has a step that takes no time left to do, no
\* sleep and no join is over, and the monitored operation lasts MaxRun at most
Tick ==
    /\ \A t \in Threads : /\ tpc[t] \notin {"check", "collect"}
                          /\ tpc[t] = "sleep" => tsleep[t] > 0
    /\ mpc = "stop_join" => (join_timer < JoinTimeout /\ tpc[monitor_thread] # "done")
    /\ Running => run_timer < MaxRun
    /\ \/ \E t \in Threads : tpc[t] = "sleep"
       \/ mpc = "stop_join"
       \/ Running
    /\ tsleep' = [t \in Threads |-> IF tpc[t] = "sleep" THEN tsleep[t] - 1 ELSE tsleep[t]]
    /\ join_timer' = IF mpc = "stop_join" THEN join_timer + 1 ELSE join_timer
    /\ run_timer' = IF Running THEN run_timer + 1 ELSE run_timer
    /\ UNCHANGED <<genVars, cmdVars, selVars, colVars, pureVars, has_process, child_alive, interval_seconds, monitoring, monitor_thread,
                   samples, mpc, tpc, starts, summary, last_call, metrics_csv,
                   summary_json>>

NextMon ==
    \/ StartMonitoring
    \/ StopMonitoring
    \/ JoinReturns
    \/ GenerateSummary
    \/ WriteMetricsCsv
    \/ WriteSummaryJson
    \/ \E t \in Threads : ThreadCheck(t)
    \/ \E t \in Threads : ThreadAppend(t)
    \/ \E t \in Threads : ThreadCollectFails(t)
    \/ \E t \in Threads : ThreadWake(t)
    \/ ChildExits
    \/ Tick

(***************************************************************************)
(* Claims about the performance monitor.                                   *)
(***************************************************************************)
\* stop_monitoring has computed the summary of the current monitoring period
SummaryComputed == summary # NoSummary

\* C3: once stop_monitoring has begun computing the summary, every sampling
\* thread has observed the stop signal and finished, and the number of
\* samples the summary reports equals the length of the sample list at every
\* later moment of the monitoring period, for every sampling interval.
C3_SummaryAfterThreadFinished ==
    SummaryComputed =>
        /\ \A t \in Threads : tpc[t] \in {"unborn", "done"}
        /\ summary.count = Len(samples)

\* C17: a lifecycle call that does not match the state of the monitor is a
\* no-op: start_monitoring while monitoring and stop_monitoring while not
\* monitoring leave the flag, the sample list, the sampling threads and the
\* output files unchanged, and such a stop returns the empty summary.
C17_MismatchedCallIsNoOp ==
    [][/\ (StartMonitoring /\ monitoring) =>
              /\ last_call' = "start_noop"
              /\ UNCHANGED <<monitoring, samples, monitor_thread, tpc, tsleep, starts,
                             metrics_csv, summary_json>>
       /\ (StopMonitoring /\ ~monitoring) =>
              /\ last_call' = "stop_noop"
              /\ UNCHANGED <<monitoring, samples, monitor_thread, tpc, tsleep, starts,
                             mpc, metrics_csv, summary_json>>]_vars

\* C17 witness: start_monitoring was called on a monitor that was monitoring
\* and had collected a sample
C17_Witness ==
    /\ last_call = "start_noop"
    /\ monitoring
    /\ samples # <<>>
    /\ tpc[monitor_thread] = "sleep"

\* C18: when stop_monitoring has returned after a successful
\* start_monitoring, whatever the sampling thread did in between (also when
\* no sample was appended before the stop), the monitor is not monitoring,
\* the returned summary has the timing and samples entries, and the metrics
\* CSV file and the summary JSON file exist.
C18_StopLeavesSummaryAndFiles ==
    last_call = "stop" =>
        /\ ~monitoring
        /\ {"timing", "samples"} \subseteq summary.keys
        /\ metrics_csv.exists
        /\ summary_json.exists

\* C19: when the monitored process exits while the monitor is monitoring,
\* the sampling loop keeps running until stop: a sample taken after the exit
\* is appended and carries system metrics only, and the loop of the current
\* period has not ended while the monitoring flag is set.
C19_LoopSurvivesProcessExit ==
    /\ \A i \in DOMAIN samples :
           samples[i].after_exit => samples[i].scope = "system"
    /\ monitoring => tpc[monitor_thread] \in {"check", "collect", "sleep"}

\* C19 witness: in one monitoring period a sample with process metrics was
\* taken, the process exited, and a later sample was appended while the
\* monitor was still monitoring
C19_Witness ==
    /\ monitoring
    /\ ~child_alive
    /\ \E i, j \in DOMAIN samples :
           /\ i < j
           /\ samples[i].scope = "process"
           /\ samples[j].after_exit
           /\ samples[j].thread = samples[i].thread

\* a sampling thread is in _monitor_loop: testing the flag, collecting and
\* appending, or sleeping
InLoop(t) == tpc[t] \in {"check", "collect", "sleep"}

\* C28: at any moment at most one sampling thread of a monitor is running its
\* loop and appending to the sample list, for every sampling interval, also
\* when start_monitoring follows stop_monitoring at once; the sample list of
\* a monitoring period holds only samples taken by that period's thread in
\* that period.
C28_OneSamplingThread ==
    /\ Cardinality({t \in Threads : InLoop(t)}) <= 1
    /\ \A i \in DOMAIN samples :
           /\ samples[i].thread = monitor_thread
           /\ samples[i].period = starts

(***************************************************************************)
(* Metadata selection (ecmd.select_ecmd_row_for_year, called by            *)
(* run_single_scenario).  The function is not part of the sources at hand; *)
(* it is modelled from section 4.3 of the specification.  An effective     *)
(* date YYYYMMDDHHMM is the number year * DateSlots + slot, where slot 0   *)
(* is January 1st 00:00 and the larger slots are later moments of the year.*)
(***************************************************************************)
\* the sites of the rows of a log
Sites == {"SITE", "OTHER"}

\* the years of the effective dates of a log
RowYears == FirstYear..(FirstYear + 2)

\* the effective dates of a log
EffectiveDates == {y * DateSlots + s : y \in RowYears, s \in 0..(DateSlots - 1)}

\* the rows of a log: the row number stands for the descriptors of the row
MetadataRows == [site : Sites, date : EffectiveDates]

\* the target years: one before the first row year up to the last row year
TargetYears == (FirstYear - 1)..(FirstYear + 2)

\* the start of a target year, as an effective date
StartOfYear(target_year) == target_year * DateSlots

\* the positions of the rows of the site that are effective at or before the
\* start of the target year
Applicable(log, site_id, target_year) ==
    {i \in DOMAIN log : /\ log[i].site = site_id
                        /\ log[i].date <= StartOfYear(target_year)}

\* a selector that picks the row nearest in time to the start of the target
\* year, before or after it
Distance(a, b) == IF a >= b THEN a - b ELSE b - a

SelectNearest(log, site_id, target_year) ==
    LET own == {i \in DOMAIN log : log[i].site = site_id}
    IN  IF own = {}
        THEN [status |-> "MetadataError", row |-> 0]
        ELSE [status |-> "ok",
              row |-> CHOOSE i \in own : \A j \in own :
                          \/ Distance(log[j].date, StartOfYear(target_year))
                                 > Distance(log[i].date, StartOfYear(target_year))
                          \/ /\ Distance(log[j].date, StartOfYear(target_year))
                                    = Distance(log[i].date, StartOfYear(target_year))
                             /\ j >= i]

\* selectRow: the applicable row with the latest effective date (the first of
\* them in the log when several carry that date), MetadataError when no row
\* of the site is applicable
select_ecmd_row_for_year(log, site_id, target_year) ==
    LET rows == Applicable(log, site_id, target_year)
    IN  IF rows = {}
        THEN [status |-> "MetadataError", row |-> 0]
        ELSE [status |-> "ok",
              row |-> CHOOSE i \in rows : \A j \in rows :
                          \/ log[j].date < log[i].date
                          \/ (log[j].date = log[i].date /\ j >= i)]

\* the logs of at most MaxRows rows
MetadataLogs == UNION {[1..n -> MetadataRows] : n \in 0..MaxRows}

NoSelection == [status |-> "none", row |-> 0]

InitSel ==
    /\ selPhase = "input"
    /\ selLog \in MetadataLogs
    /\ selSite = "SITE"
    /\ selYear \in TargetYears
    /\ selResult = NoSelection

\* no selection is made
SelIdle ==
    /\ selPhase = "idle"
    /\ selLog = <<>>
    /\ selSite = "SITE"
    /\ selYear = FirstYear
    /\ selResult = NoSelection

\* run_single_scenario: ecmd_row = ecmd.select_ecmd_row_for_year(...)
SelectRow ==
    /\ selPhase = "input"
    /\ selResult' = select_ecmd_row_for_year(selLog, selSite, selYear)
    /\ selPhase' = "done"
    /\ UNCHANGED <<genVars, cmdVars, monVars, colVars, pureVars, selLog, selSite, selYear>>

NextSel == SelectRow

(***************************************************************************)
(* Claims about metadata selection.                                        *)
(***************************************************************************)
\* C11: metadata selection returns, among the rows of the site effective at
\* or before the start of the target year, a row with the latest effective
\* date, never a later row, and fails with a metadata error exactly when the
\* site has no such row.
C11_LatestAtOrBefore ==
    selPhase = "done" =>
        IF \E i \in DOMAIN selLog : /\ selLog[i].site = selSite
                                    /\ selLog[i].date <= StartOfYear(selYear)
        THEN /\ selResult.status = "ok"
             /\ selResult.row \in DOMAIN selLog
             /\ selLog[selResult.row].site = selSite
             /\ selLog[selResult.row].date <= StartOfYear(selYear)
             /\ \A j \in DOMAIN selLog :
                    (selLog[j].site = selSite /\ selLog[j].date <= StartOfYear(selYear))
                        => selLog[j].date <= selLog[selResult.row].date
        ELSE selResult.status = "MetadataError"

\* C11 witness: the site has a row effective before the target year and a
\* row effective later in the target year, nearer to its start, and the
\* earlier row was selected
C11_Witness ==
    /\ selPhase = "done"
    /\ selResult.status = "ok"
    /\ \E j \in DOMAIN selLog :
           /\ selLog[j].site = selSite
           /\ selLog[j].date > StartOfYear(selYear)
           /\ Distance(selLog[j].date, StartOfYear(selYear))
                  < Distance(selLog[selResult.row].date, StartOfYear(selYear))

(***************************************************************************)
(* Taking one sample under every combination of failing psutil calls.      *)
(***************************************************************************)
\* the psutil calls that raise while one sample is taken
FailingCalls == SUBSET (Collectors \cup {"is_running"})

NoSample == [fields |-> {}, has_process |-> FALSE]

InitCol ==
    /\ colPhase = "input"
    /\ colFailing \in FailingCalls
    /\ colHasProcess \in BOOLEAN
    /\ colAlive \in BOOLEAN
    /\ colSample = NoSample

\* no sample is being taken
ColIdle ==
    /\ colPhase = "idle"
    /\ colFailing = {}
    /\ colHasProcess = FALSE
    /\ colAlive = FALSE
    /\ colSample = NoSample

\* _monitor_loop: sample = self._collect_sample()
CollectSample ==
    /\ colPhase = "input"
    /\ colSample' = collect_sample(colHasProcess, colAlive, colFailing)
    /\ colPhase' = "done"
    /\ UNCHANGED <<genVars, cmdVars, monVars, selVars, pureVars, colFailing, colHasProcess, colAlive>>

NextCol == CollectSample

(***************************************************************************)
(* Claims about taking one sample.                                         *)
(***************************************************************************)
\* the collectors that are called for the sample: the system collectors
\* and, for a monitored process that is running, the process collectors
Called ==
    Range(SystemCollectors)
        \cup (IF colHasProcess /\ colAlive /\ "is_running" \notin colFailing
              THEN ProcessCollectors ELSE {})

\* C20: when a metric collector fails while a sample is taken, only the fields
\* of that collector are omitted: the sample is produced with its timestamp
\* and with the fields of every collector that did not fail.
C20_OnlyFailedCollectorOmitted ==
    colPhase = "done" =>
        /\ "timestamp" \in colSample.fields
        /\ \A c \in Called :
               IF c \in colFailing
               THEN FieldsOf(c) \cap colSample.fields = {}
               ELSE FieldsOf(c) \subseteq colSample.fields

(***************************************************************************)
(* Summary statistics (monitor.py, _generate_summary).  Percentiles are    *)
(* fractions of 100: every statistic is kept in hundredths of the unit of  *)
(* the samples, which is exact for p = 0.5, 0.9 and 0.95.                  *)
(***************************************************************************)
\* the largest number of samples of a monitoring period
MaxSamples == 3
\* the largest value of a numeric field
MaxValue == 1

\* hundredths: the unit of the statistics
Scale == 100

\* the numeric fields of a sample: one system field and one process field
\* (timestamp and relative_time are skipped by _get_numeric_fields)
NumericFields == {"cpu_percent", "process_cpu_percent"}

\* the samples _collect_sample can produce: the fields of the collectors
\* that did not fail, each with its value
SampleValues == UNION {[fs -> 0..MaxValue] : fs \in SUBSET NumericFields}

\* _get_numeric_fields: the numeric keys of the FIRST sample
get_numeric_fields(sample_list) ==
    IF sample_list = <<>> THEN {} ELSE DOMAIN sample_list[1]

\* _generate_summary: [s[field] for s in self._samples if field in s]
values_of(field, sample_list) ==
    LET carrying == SelectSeq(sample_list, LAMBDA s : field \in DOMAIN s)
    IN [i \in 1..Len(carrying) |-> carrying[i][field]]

RECURSIVE InsertValue(_, _)
InsertValue(v, s) ==
    IF s = <<>> THEN <<v>>
    ELSE IF v <= Head(s) THEN <<v>> \o s
    ELSE <<Head(s)>> \o InsertValue(v, Tail(s))

\* sorted(values)
RECURSIVE sorted_values(_)
sorted_values(values) ==
    IF values = <<>> THEN <<>>
    ELSE InsertValue(Head(values), sorted_values(Tail(values)))

RECURSIVE Sum(_)
Sum(values) == IF values = <<>> THEN 0 ELSE Head(values) + Sum(Tail(values))

\* _percentile of sorted values, p in hundredths; the result in hundredths.
\* index = p * (len - 1); values[int(index)] when index is an integer, else
\* the interpolation between values[lower] and values[lower + 1]
percentile(values, p) ==
    IF values = <<>> THEN 0
    ELSE LET index == p * (Len(values) - 1)
             lower == index \div Scale
             weight == index % Scale
         IN IF weight = 0
            THEN values[lower + 1] * Scale
            ELSE values[lower + 1] * (Scale - weight) + values[lower + 2] * weight

\* the keys of the statistics of n values
StatKeys(n) ==
    {"min", "max", "mean", "count"}
        \cup (IF n >= 2 THEN {"p50", "p90", "p95"} ELSE {})

\* _calculate_stats: min, max, mean and count, and the percentiles only
\* for two values or more.  mean is the fraction <<sum, n>>.
calculate_stats(unsorted) ==
    LET values == sorted_values(unsorted)
        n == Len(values)
    IN [k \in StatKeys(n) |->
            CASE k = "min" -> values[1] * Scale
              [] k = "max" -> values[n] * Scale
              [] k = "mean" -> <<Sum(values), n>>
              [] k = "count" -> n
              [] k = "p50" -> percentile(values, 50)
              [] k = "p90" -> percentile(values, 90)
              [] k = "p95" -> percentile(values, 95)]

\* _generate_summary: summary["metrics"], statistics for each numeric field
\* that has a value
summary_metrics(sample_list) ==
    LET summarized == {field \in get_numeric_fields(sample_list) :
                           values_of(field, sample_list) # <<>>}
    IN [field \in summarized |-> calculate_stats(values_of(field, sample_list))]

NoStatistics == [kind |-> "none", count |-> 0, metrics |-> <<>>]

\* _generate_summary: samples.count and metrics
statistics_summary(sample_list) ==
    [kind |-> generate_summary(sample_list).kind,
     count |-> generate_summary(sample_list).count,
     metrics |-> summary_metrics(sample_list)]

InitStat ==
    /\ statPhase = "collect"
    /\ statSamples = <<>>
    /\ statSummary = NoStatistics

\* no summary is being computed
StatIdle ==
    /\ statPhase = "idle"
    /\ statSamples = <<>>
    /\ statSummary = NoStatistics

\* _monitor_loop: self._samples.append(sample)
StatAppend ==
    /\ statPhase = "collect"
    /\ Len(statSamples) < MaxSamples
    /\ \E sample \in SampleValues : statSamples' = Append(statSamples, sample)
    /\ UNCHANGED <<outsideStat, statPhase, statSummary>>

\* stop_monitoring: summary = self._generate_summary()
StatSummarize ==
    /\ statPhase = "collect"
    /\ statSummary' = statistics_summary(statSamples)
    /\ statPhase' = "done"
    /\ UNCHANGED <<outsideStat, statSamples>>

NextStat == StatAppend \/ StatSummarize

(***************************************************************************)
(* Claims about the summary statistics.                                    *)
(***************************************************************************)
\* C21: a monitor stopped after N >= 1 samples reports samples.count = N and,
\* for every numeric field of the summary, statistics with
\* min <= p50 <= p90 <= p95 <= max.
C21_CountAndOrderedPercentiles ==
    (statPhase = "done" /\ Len(statSamples) >= 1) =>
        /\ statSummary.count = Len(statSamples)
        /\ \A field \in DOMAIN statSummary.metrics :
               LET st == statSummary.metrics[field]
               IN /\ {"min", "p50", "p90", "p95", "max"} \subseteq DOMAIN st
                  /\ st["min"] <= st["p50"]
                  /\ st["p50"] <= st["p90"]
                  /\ st["p90"] <= st["p95"]
                  /\ st["p95"] <= st["max"]

\* the samples that carry a field
Carrying(field) == {i \in DOMAIN statSamples : field \in DOMAIN statSamples[i]}

\* C22: the summary computed at stop has statistics for every numeric field
\* that occurs in at least one sample, each over all the samples that carry
\* the field.
C22_EveryOccurringFieldSummarized ==
    statPhase = "done" =>
        \A field \in NumericFields :
            Carrying(field) # {} =>
                /\ field \in DOMAIN statSummary.metrics
                /\ statSummary.metrics[field]["count"] = Cardinality(Carrying(field))
                /\ \A i \in Carrying(field) :
                       /\ statSummary.metrics[field]["min"] <= statSamples[i][field] * Scale
                       /\ statSummary.metrics[field]["max"] >= statSamples[i][field] * Scale

(***************************************************************************)
(* Patching an EddyPro project document (ini_tools.py).  A document is a   *)
(* map from the names of its sections to maps from keys to string values,  *)
(* as configparser.ConfigParser keeps it.                                  *)
(***************************************************************************)
\* the largest number of parameters patched by one call
MaxPatchKeys == 1

SettingsSection == "RawProcess_Settings"
ParameterSection == "RawProcess_ParameterSettings"
ProjectSection == "Project"
TiltSection == "RawProcess_TiltCorrection_Settings"
TimelagSection == "RawProcess_TimelagOptimization_Settings"

IniSections ==
    {SettingsSection, ParameterSection, ProjectSection, TiltSection, TimelagSection}

\* PARAMETER_VALIDATION[param_name]["section"]
section_of(param_name) ==
    IF param_name = "despike_meth" THEN ParameterSection ELSE SettingsSection

\* a patcher that writes every parameter under its own name
ini_key_unmapped(param_name) == param_name

\* PARAMETER_INI_KEY_MAP.get(param_name, param_name)
ini_key(param_name) ==
    IF param_name = "despike_meth" THEN "despike_vm" ELSE param_name

\* str(value) of an integer, and int(text) of a configparser value
Digits == 0..9

str(value) == ToString(value)

int(text) == CHOOSE n \in Digits : str(n) = text

\* datetime.now().strftime("%Y-%m-%dT%H:%M:%S") at second t
strftime(t) == "T" \o ToString(t)

\* the sections of a template with their keys, date fields and project
\* metadata empty
TemplateSection(name, rot, tlag, creation) ==
    CASE name = SettingsSection ->
             [rot_meth |-> rot, tlag_meth |-> tlag, detrend_meth |-> "0"]
      [] name = ParameterSection -> [despike_vm |-> "0"]
      [] name = ProjectSection ->
             [creation_date |-> creation, last_change_date |-> "",
              project_title |-> "", project_id |-> ""]
      [] name = TiltSection ->
             [pf_start_date |-> "", pf_end_date |-> "",
              pf_start_time |-> "", pf_end_time |-> ""]
      [] name = TimelagSection ->
             [to_start_date |-> "", to_end_date |-> "",
              to_start_time |-> "", to_end_time |-> ""]

\* the documents read_ini_template returns: any of the sections may be
\* missing from a template
Templates ==
    {[name \in present |-> TemplateSection(name, rot, tlag, creation)] :
        present \in SUBSET IniSections, rot \in {"1", "3"}, tlag \in {"2", "4"},
        creation \in {"", strftime(0)}}

\* config.has_section(section)
has_section(config, section) == section \in DOMAIN config

\* config.get(section, key, fallback=fallback)
get(config, section, key, fallback) ==
    IF key \in DOMAIN config[section] THEN config[section][key] ELSE fallback

\* config.set(section, key, value)
set(config, section, key, value) ==
    [config EXCEPT ![section] =
        [k \in DOMAIN @ \cup {key} |-> IF k = key THEN value ELSE @[k]]]

\* the outcome of a call: the document it leaves and how it ended
Returned(config) == [config |-> config, outcome |-> "ok"]

Raised(config, error) == [config |-> config, outcome |-> error]

\* patch_ini_parameters: parameters is a dict, given as the sequence of its
\* names in insertion order and the map of their values
RECURSIVE patch_ini_parameters(_, _, _)
patch_ini_parameters(config, names, values) ==
    IF names = <<>> THEN Returned(config)
    ELSE LET param_name == Head(names)
         IN IF ~has_section(config, section_of(param_name))
            THEN Raised(config, "INIParameterError")
            ELSE patch_ini_parameters(
                     set(config, section_of(param_name), ini_key(param_name),
                         str(values[param_name])),
                     Tail(names), values)

\* the validated parameter maps passed to patch_ini_parameters
ValidatedParameters ==
    UNION {{[names |-> ns, values |-> f] :
                f \in {g \in [Range(ns) -> Digits] :
                          \A n \in Range(ns) : g[n] \in PARAMETER_VALIDATION[n]}}
           : ns \in DistinctSeqs(DOMAIN PARAMETER_VALIDATION, MaxPatchKeys)}

\* the full-year range of patch_conditional_date_ranges
set_date_range(config, section, prefix, for_year) ==
    LET c1 == set(config, section, prefix \o "_start_date", ToString(for_year) \o "-01-01")
        c2 == set(c1, section, prefix \o "_end_date", ToString(for_year) \o "-12-31")
        c3 == set(c2, section, prefix \o "_start_time", "00:00")
    IN set(c3, section, prefix \o "_end_time", "23:59")

\* config.getint(section, key, fallback=None) == wanted
method_is(config, key, wanted) ==
    /\ has_section(config, SettingsSection)
    /\ key \in DOMAIN config[SettingsSection]
    /\ int(config[SettingsSection][key]) = wanted

\* rot_meth == 3 (planar fit)
planar_fit(config) == method_is(config, "rot_meth", 3)

\* a check of the time lag method that fires for every method
tlag_always(config) == TRUE

\* tlag_meth == 4 (time-lag optimization)
tlag_optimization(config) == method_is(config, "tlag_meth", 4)

\* patch_conditional_date_ranges: the planar-fit block, then the time-lag
\* block on the document the first block left
patch_conditional_date_ranges(config, for_year) ==
    LET tilted == IF planar_fit(config)
                  THEN set_date_range(config, TiltSection, "pf", for_year)
                  ELSE config
    IN IF planar_fit(config) /\ ~has_section(config, TiltSection)
       THEN Raised(config, "INIParameterError")
       ELSE IF ~tlag_optimization(tilted) THEN Returned(tilted)
       ELSE IF ~has_section(tilted, TimelagSection)
            THEN Raised(tilted, "INIParameterError")
            ELSE Returned(set_date_range(tilted, TimelagSection, "to", for_year))

\* a patcher that stamps the creation date on every call
creation_date_overwritten(config) == TRUE

\* not config.get("Project", "creation_date", fallback="").strip()
creation_date_unset(config) ==
    get(config, ProjectSection, "creation_date", "") = ""

\* f"{site_id} {year}{scenario_suffix}"
project_title(site_id, for_year, scenario_suffix) ==
    site_id \o " " \o ToString(for_year) \o scenario_suffix

\* f"{site_id}_{year}"
project_id(site_id, for_year) == site_id \o "_" \o ToString(for_year)

\* patch_project_metadata at the moment now
patch_project_metadata(config, site_id, for_year, scenario_suffix, now) ==
    IF ~has_section(config, ProjectSection)
    THEN Raised(config, "INIParameterError")
    ELSE LET created == IF creation_date_unset(config)
                        THEN set(config, ProjectSection, "creation_date", strftime(now))
                        ELSE config
             changed == set(created, ProjectSection, "last_change_date", strftime(now))
             titled == set(changed, ProjectSection, "project_title",
                           project_title(site_id, for_year, scenario_suffix))
         IN Returned(set(titled, ProjectSection, "project_id",
                         project_id(site_id, for_year)))

\* the years, sites and scenario suffixes of the calls
IniYears == {FirstYear, FirstYear + 1}

IniSuffixes == {"", "_rot1"}

NoCalls == <<>>

InitIni ==
    /\ iniPhase = "template"
    /\ iniDoc \in Templates
    /\ iniClock = 1
    /\ iniCalls = NoCalls

\* no document is being patched
IniIdle ==
    /\ iniPhase = "idle"
    /\ iniDoc = <<>>
    /\ iniClock = 0
    /\ iniCalls = NoCalls

\* a document is patched, and patched once more
AfterCall(phase) == IF phase = "template" THEN "patched" ELSE "repatched"

\* one call on the document: its inputs, the document before and after it
\* and how it ended
Call(op, inputs, result, now) ==
    /\ iniPhase \in {"template", "patched"}
    /\ iniPhase' = AfterCall(iniPhase)
    /\ iniDoc' = result.config
    /\ iniCalls' = Append(iniCalls,
                          [op |-> op, inputs |-> inputs, before |-> iniDoc,
                           after |-> result.config, outcome |-> result.outcome,
                           now |-> now])

\* ini_tools.patch_ini_parameters(config, validated_params)
PatchParameters ==
    /\ \E parameters \in ValidatedParameters :
           Call("patch_ini_parameters", parameters,
                patch_ini_parameters(iniDoc, parameters.names, parameters.values),
                iniClock)
    /\ UNCHANGED <<outsideIni, iniClock>>

\* ini_tools.patch_conditional_date_ranges(config, year=year)
PatchDateRanges ==
    /\ \E for_year \in IniYears :
           Call("patch_conditional_date_ranges", <<for_year>>,
                patch_conditional_date_ranges(iniDoc, for_year), iniClock)
    /\ UNCHANGED <<outsideIni, iniClock>>

\* ini_tools.patch_project_metadata(config, site_id=..., year=...,
\* scenario_suffix=...): the clock may have advanced since the last call
PatchMetadata ==
    /\ \E for_year \in IniYears, scenario_suffix \in IniSuffixes, now \in {iniClock, iniClock + 1} :
           /\ Call("patch_project_metadata", <<"GL-ZaF", for_year, scenario_suffix>>,
                   patch_project_metadata(iniDoc, "GL-ZaF", for_year, scenario_suffix, now),
                   now)
           /\ iniClock' = now
    /\ UNCHANGED outsideIni

NextIni == PatchParameters \/ PatchDateRanges \/ PatchMetadata

(***************************************************************************)
(* Claims about patching a project document.                               *)
(***************************************************************************)
\* the key a parameter is stored under in the document
OnDiskKey(param_name) ==
    CASE param_name = "despike_meth" -> "despike_vm"
      [] OTHER -> param_name

\* the parameters of a call that are stored under a key of a section
TargetsOf(parameters, section, key) ==
    {n \in Range(parameters.names) : section_of(n) = section /\ OnDiskKey(n) = key}

\* C23: patch_ini_parameters changes only the targeted fields: after a
\* successful call each parameter's on-disk key in its owning section holds
\* the new value and every other section, key and value is unchanged; the
\* call fails with the missing-section error if an owning section is absent.
C23_PatchChangesOnlyTargets ==
    \A i \in DOMAIN iniCalls :
        LET c == iniCalls[i]
        IN c.op = "patch_ini_parameters" =>
            IF \E n \in Range(c.inputs.names) : section_of(n) \notin DOMAIN c.before
            THEN c.outcome = "INIParameterError"
            ELSE /\ c.outcome = "ok"
                 /\ DOMAIN c.after = DOMAIN c.before
                 /\ \A n \in Range(c.inputs.names) :
                        OnDiskKey(n) \in DOMAIN c.after[section_of(n)]
                 /\ \A section \in DOMAIN c.after :
                        \A key \in DOMAIN c.after[section] :
                            IF TargetsOf(c.inputs, section, key) # {}
                            THEN \A n \in TargetsOf(c.inputs, section, key) :
                                     c.after[section][key] = ToString(c.inputs.values[n])
                            ELSE /\ key \in DOMAIN c.before[section]
                                 /\ c.after[section][key] = c.before[section][key]

\* a successful call changed the remapped key of a document that has
\* other sections
C23_Witness ==
    \E i \in DOMAIN iniCalls :
        /\ iniCalls[i].op = "patch_ini_parameters"
        /\ iniCalls[i].outcome = "ok"
        /\ iniCalls[i].inputs.names = <<"despike_meth">>
        /\ iniCalls[i].before[ParameterSection]["despike_vm"] = "0"
        /\ iniCalls[i].after[ParameterSection]["despike_vm"] = "1"
        /\ DOMAIN iniCalls[i].before = IniSections

\* the four fields of a date range hold the full year
FullYear(fields, prefix, for_year) ==
    /\ fields[prefix \o "_start_date"] = ToString(for_year) \o "-01-01"
    /\ fields[prefix \o "_end_date"] = ToString(for_year) \o "-12-31"
    /\ fields[prefix \o "_start_time"] = "00:00"
    /\ fields[prefix \o "_end_time"] = "23:59"

\* the document holds a value under a key of its settings section
Holds(config, key, text) ==
    /\ SettingsSection \in DOMAIN config
    /\ config[SettingsSection][key] = text

\* a section is the same before and after a call
Kept(c, section) ==
    section \in DOMAIN c.before => c.after[section] = c.before[section]

\* C24: patch_conditional_date_ranges populates the full-year range in the
\* tilt-correction section exactly when rot_meth is 3 and in the time-lag
\* optimization section exactly when tlag_meth is 4, each decision on its
\* own; a section whose condition does not hold keeps its date fields, and
\* so does every other section.
C24_DateRangesFollowMethods ==
    \A i \in DOMAIN iniCalls :
        LET c == iniCalls[i]
            for_year == c.inputs[1]
        IN c.op = "patch_conditional_date_ranges" =>
            /\ DOMAIN c.after = DOMAIN c.before
            /\ \A section \in IniSections \ {TiltSection, TimelagSection} :
                   Kept(c, section)
            /\ ~Holds(c.before, "rot_meth", "3") => Kept(c, TiltSection)
            /\ ~Holds(c.before, "tlag_meth", "4") => Kept(c, TimelagSection)
            /\ c.outcome = "ok" =>
                   /\ Holds(c.before, "rot_meth", "3") =>
                          /\ TiltSection \in DOMAIN c.after
                          /\ FullYear(c.after[TiltSection], "pf", for_year)
                   /\ Holds(c.before, "tlag_meth", "4") =>
                          /\ TimelagSection \in DOMAIN c.after
                          /\ FullYear(c.after[TimelagSection], "to", for_year)

\* a successful call populated the tilt-correction section and kept the
\* time-lag optimization section that the document has
C24_Witness ==
    \E i \in DOMAIN iniCalls :
        /\ iniCalls[i].op = "patch_conditional_date_ranges"
        /\ iniCalls[i].outcome = "ok"
        /\ Holds(iniCalls[i].before, "rot_meth", "3")
        /\ Holds(iniCalls[i].before, "tlag_meth", "2")
        /\ DOMAIN iniCalls[i].before = IniSections
        /\ iniCalls[i].after[TiltSection] # iniCalls[i].before[TiltSection]

\* C25: patch_project_metadata called twice on the same document with the
\* same inputs leaves creation_date at the value it had after the first call
\* (a creation_date that is set is never overwritten), and both calls set
\* last_change_date to the current time.
C25_CreationDateKept ==
    \A i \in DOMAIN iniCalls :
        LET c == iniCalls[i]
        IN (c.op = "patch_project_metadata" /\ c.outcome = "ok") =>
            /\ c.after[ProjectSection]["last_change_date"] = strftime(c.now)
            /\ c.before[ProjectSection]["creation_date"] # "" =>
                   c.after[ProjectSection]["creation_date"]
                       = c.before[ProjectSection]["creation_date"]
            /\ (/\ i > 1
                /\ iniCalls[i - 1].op = "patch_project_metadata"
                /\ iniCalls[i - 1].outcome = "ok"
                /\ iniCalls[i - 1].inputs = c.inputs) =>
                   c.after[ProjectSection]["creation_date"]
                       = iniCalls[i - 1].after[ProjectSection]["creation_date"]

\* two calls with the same inputs on a template without creation date, the
\* second one a second later
C25_Witness ==
    /\ Len(iniCalls) = 2
    /\ iniCalls[1].op = "patch_project_metadata"
    /\ iniCalls[2].op = "patch_project_metadata"
    /\ iniCalls[1].outcome = "ok"
    /\ iniCalls[2].outcome = "ok"
    /\ iniCalls[1].inputs = iniCalls[2].inputs
    /\ iniCalls[1].before[ProjectSection]["creation_date"] = ""
    /\ iniCalls[2].now > iniCalls[1].now
    /\ iniCalls[2].after[ProjectSection]["last_change_date"]
           # iniCalls[1].after[ProjectSection]["last_change_date"]

(***************************************************************************)
(* Calls of validate_parameter and validate_parameters (ini_tools.py) on   *)
(* the names and values of the model.                                      *)
(***************************************************************************)
\* the largest number of entries of a dict passed to validate_parameters
MaxEntries == 2

\* the recognized names and one that is not
ValNames == DOMAIN PARAMETER_VALIDATION \cup {"unknown_param"}

\* the values: integers, texts, the floats 1.0 and 1.7, None, nan and inf
PyValues ==
    {PyInt(n) : n \in Spelled}
        \cup {PyStr(text) : text \in {"1", " 3 ", "1.0", "x"}}
        \cup {PyFloat(10), PyFloat(17)}
        \cup {PyOther(kind) : kind \in {"None", "nan", "inf"}}

\* a dict as the sequence of its entries, from its names in insertion order
\* and their values
EntriesOf(ns, vs) == [i \in DOMAIN ns |-> <<ns[i], vs[i]>>]

NoValidation == [ok |-> FALSE, value |-> 0, error |-> "not called"]

InitVal ==
    /\ valPhase = "input"
    /\ valCall = "none"
    /\ \E ns \in DistinctSeqs(ValNames, MaxEntries) :
           \E vs \in [DOMAIN ns -> PyValues] : valEntries = EntriesOf(ns, vs)
    /\ valResult = NoValidation

\* nothing is being validated
ValIdle ==
    /\ valPhase = "idle"
    /\ valCall = "none"
    /\ valEntries = <<>>
    /\ valResult = NoValidation

\* ini_tools.validate_parameter(param_name, value)
ValidateParameter ==
    /\ valPhase = "input"
    /\ Len(valEntries) = 1
    /\ valCall' = "validate_parameter"
    /\ valResult' = validate_parameter(valEntries[1][1], valEntries[1][2])
    /\ valPhase' = "done"
    /\ UNCHANGED <<outsideVal, valEntries>>

\* ini_tools.validate_parameters(parameters)
ValidateParameters ==
    /\ valPhase = "input"
    /\ valCall' = "validate_parameters"
    /\ valResult' = validate_entries(valEntries, <<>>, 0)
    /\ valPhase' = "done"
    /\ UNCHANGED <<outsideVal, valEntries>>

NextVal == ValidateParameter \/ ValidateParameters

(***************************************************************************)
(* Claims about validation.                                                *)
(***************************************************************************)
\* the name is recognized, the value can be coerced to an integer and the
\* integer is allowed for the name
EntryValid(entry) ==
    /\ entry[1] \in DOMAIN PARAMETER_VALIDATION
    /\ int_of(entry[2]).outcome = "ok"
    /\ int_of(entry[2]).value \in PARAMETER_VALIDATION[entry[1]]

FirstInvalid(entries) ==
    CHOOSE i \in DOMAIN entries :
        /\ ~EntryValid(entries[i])
        /\ \A j \in 1..(i - 1) : EntryValid(entries[j])

\* C26: validate_parameter returns the coerced integer exactly when the name
\* is recognized, the value can be coerced to an integer and that integer is
\* allowed; in every other case it fails with the invalid-parameter error;
\* validate_parameters fails as soon as one entry is invalid.
C26_ValidatedOrInvalidParameter ==
    valPhase = "done" =>
        IF valCall = "validate_parameter"
        THEN IF EntryValid(valEntries[1])
             THEN /\ valResult.ok
                  /\ valResult.value = int_of(valEntries[1][2]).value
             ELSE /\ ~valResult.ok
                  /\ valResult.error = "INIParameterError"
        ELSE IF \A i \in DOMAIN valEntries : EntryValid(valEntries[i])
             THEN /\ valResult.ok
                  /\ valResult.validated
                         = [i \in DOMAIN valEntries |->
                                <<valEntries[i][1], int_of(valEntries[i][2]).value>>]
             ELSE /\ ~valResult.ok
                  /\ valResult.error = "INIParameterError"
                  /\ valResult.checked = FirstInvalid(valEntries)

(***************************************************************************)
(* The configuration checksum of the run manifest (cli.cmd_scenarios and   *)
(* core.generate_run_report): str(hash(json.dumps(config,                  *)
(* sort_keys=True))).  hash of a str is SipHash keyed by a secret that the *)
(* interpreter draws when a process starts (PYTHONHASHSEED unset).         *)
(***************************************************************************)
\* the largest number of invocations that record a checksum
MaxInvocations == 2

\* the keys of a configuration, in the order sort_keys puts them
ConfigKeyOrder == <<"eddypro_executable", "site_id">>

ConfigValues == {"GL-ZaF", "DK-Sor"}

\* the configurations: dicts given as the sequence of their <<key, value>>
\* pairs in insertion order
Configs ==
    UNION {{[i \in DOMAIN ks |-> <<ks[i], vs[i]>>] : vs \in [DOMAIN ks -> ConfigValues]}
           : ks \in DistinctSeqs(Range(ConfigKeyOrder), Len(ConfigKeyOrder))}

\* the hash secrets a process can start with
HashSecrets == {0, 1}

\* config[key]
ConfigValue(config, key) ==
    config[CHOOSE i \in DOMAIN config : config[i][1] = key][2]

\* json.dumps(config, sort_keys=True): the items in the order of their keys
RECURSIVE DumpItems(_, _)
DumpItems(config, keys) ==
    IF keys = <<>> THEN <<>>
    ELSE IF \E i \in DOMAIN config : config[i][1] = Head(keys)
    THEN <<"\"" \o Head(keys) \o "\": \"" \o ConfigValue(config, Head(keys)) \o "\"">>
             \o DumpItems(config, Tail(keys))
    ELSE DumpItems(config, Tail(keys))

RECURSIVE JoinWith(_, _)
JoinWith(parts, separator) ==
    IF parts = <<>> THEN ""
    ELSE IF Len(parts) = 1 THEN parts[1]
    ELSE parts[1] \o separator \o JoinWith(Tail(parts), separator)

dumps_sorted(config) == "{" \o JoinWith(DumpItems(config, ConfigKeyOrder), ", ") \o "}"

\* hash(text) in a process whose hash secret is secret: a function of both
\* (distinct secrets give distinct values, as do distinct texts)
hash(text, secret) == "siphash" \o ToString(secret) \o "(" \o text \o ")"

\* config_checksum = str(hash(json.dumps(config, sort_keys=True)))
config_checksum(config, secret) == hash(dumps_sorted(config), secret)

InitSum ==
    /\ sumPhase = "run"
    /\ sumRuns = <<>>

\* no checksum is being computed
SumIdle ==
    /\ sumPhase = "idle"
    /\ sumRuns = <<>>

\* one invocation of the scenarios command (or of generate_run_report) in
\* a process: the manifest it writes records the checksum
RecordChecksum ==
    /\ sumPhase = "run"
    /\ Len(sumRuns) < MaxInvocations
    /\ \E config \in Configs, secret \in HashSecrets :
           sumRuns' = Append(sumRuns,
                             [config |-> config, secret |-> secret,
                              config_checksum |-> config_checksum(config, secret)])
    /\ UNCHANGED <<outsideSum, sumPhase>>

NextSum == RecordChecksum

(***************************************************************************)
(* Claims about the configuration checksum.                                *)
(***************************************************************************)
\* C27: the config_checksum recorded in the run manifest is a function of the
\* configuration content only: two invocations, also in different processes,
\* with equal configuration mappings record equal checksums, whatever the
\* insertion order of the keys.
C27_ChecksumOfContentOnly ==
    \A i, j \in DOMAIN sumRuns :
        Range(sumRuns[i].config) = Range(sumRuns[j].config) =>
            sumRuns[i].config_checksum = sumRuns[j].config_checksum

(***************************************************************************)
(* core.run_subprocess_with_monitoring, statement by statement, with the   *)
(* monitor of its MonitoredOperation (monitor.py): the flag _monitoring    *)
(* and the calls of start_monitoring and stop_monitoring that took effect. *)
(***************************************************************************)
\* what the child process does: launching it raises, reading it raises, or
\* it terminates with an exit code
ChildBehaviours == {"launch_raises", "read_raises", "exits"}

\* a context manager that stops the monitor on normal completion only
exit_stops_unless_raised(monitor, raised) == monitor /\ ~raised

\* MonitoredOperation.__exit__: if self.monitor: self.monitor.stop_monitoring()
exit_stops(monitor, raised) == monitor

\* start_monitoring on the flag: a no-op while monitoring
flag_after_start(flag) == IF AlreadyActive(flag) THEN flag ELSE TRUE

\* the calls that took effect, after start_monitoring(process_pid)
calls_after_start(calls, flag, process_pid) ==
    IF AlreadyActive(flag) THEN calls
    ELSE Append(calls, [call |-> "start", process_pid |-> process_pid])

\* the calls that took effect, after stop_monitoring()
calls_after_stop(calls, flag) ==
    IF ~flag THEN calls
    ELSE Append(calls, [call |-> "stop", process_pid |-> "None"])

InitRun ==
    /\ runPc = "call"
    /\ runMonitor \in BOOLEAN
    /\ runStream \in BOOLEAN
    /\ runChild \in ChildBehaviours
    /\ runExitCode \in {0, 1}
    /\ runFlag = FALSE
    /\ runCalls = <<>>
    /\ runRaised = FALSE
    /\ runResult = None

\* run_subprocess_with_monitoring is not being called
RunIdle ==
    /\ runPc = "idle"
    /\ runMonitor = FALSE
    /\ runStream = FALSE
    /\ runChild = "exits"
    /\ runExitCode = 0
    /\ runFlag = FALSE
    /\ runCalls = <<>>
    /\ runRaised = FALSE
    /\ runResult = None

\* with MonitoredOperation(...) as monitor: create_monitor gives a monitor,
\* or None without psutil; __enter__ starts system-wide monitoring
RunEnter ==
    /\ runPc = "call"
    /\ runFlag' = IF runMonitor THEN flag_after_start(runFlag) ELSE runFlag
    /\ runCalls' = IF runMonitor THEN calls_after_start(runCalls, runFlag, "None")
                   ELSE runCalls
    /\ runPc' = "popen"
    /\ UNCHANGED <<outsideRun, runMonitor, runStream, runChild, runExitCode,
                   runRaised, runResult>>

\* process = subprocess.Popen(...): it raises, or the child runs
RunPopen ==
    /\ runPc = "popen"
    /\ IF runChild = "launch_raises"
       THEN runRaised' = TRUE /\ runPc' = "exit"
       ELSE runRaised' = FALSE /\ runPc' = "rescope_stop"
    /\ UNCHANGED <<outsideRun, runMonitor, runStream, runChild, runExitCode,
                   runFlag, runCalls, runResult>>

\* if monitor and process.pid: monitor.stop_monitoring()
RunRescopeStop ==
    /\ runPc = "rescope_stop"
    /\ IF runMonitor
       THEN /\ runFlag' = FALSE
            /\ runCalls' = calls_after_stop(runCalls, runFlag)
            /\ runPc' = "rescope_start"
       ELSE /\ UNCHANGED <<runFlag, runCalls>>
            /\ runPc' = "wait"
    /\ UNCHANGED <<outsideRun, runMonitor, runStream, runChild, runExitCode,
                   runRaised, runResult>>

\* monitor.start_monitoring(process_pid=process.pid)
RunRescopeStart ==
    /\ runPc = "rescope_start"
    /\ runFlag' = flag_after_start(runFlag)
    /\ runCalls' = calls_after_start(runCalls, runFlag, "pid")
    /\ runPc' = "wait"
    /\ UNCHANGED <<outsideRun, runMonitor, runStream, runChild, runExitCode,
                   runRaised, runResult>>

\* for line in process.stdout: print(line), or process.wait(): reading
\* raises, or the child has finished
RunWait ==
    /\ runPc = "wait"
    /\ runRaised' = (runChild = "read_raises")
    /\ runPc' = "exit"
    /\ UNCHANGED <<outsideRun, runMonitor, runStream, runChild, runExitCode,
                   runFlag, runCalls, runResult>>

\* MonitoredOperation.__exit__, on return and on an exception alike
RunExit ==
    /\ runPc = "exit"
    /\ IF exit_stops(runMonitor, runRaised)
       THEN /\ runFlag' = FALSE
            /\ runCalls' = calls_after_stop(runCalls, runFlag)
       ELSE UNCHANGED <<runFlag, runCalls>>
    /\ runPc' = "return"
    /\ UNCHANGED <<outsideRun, runMonitor, runStream, runChild, runExitCode,
                   runRaised, runResult>>

\* return return_code, or return -1 from the except clause
RunReturn ==
    /\ runPc = "return"
    /\ runResult' = run_subprocess_with_monitoring(
                        runStream, [raises |-> runRaised, exit_code |-> runExitCode])
    /\ runPc' = "returned"
    /\ UNCHANGED <<outsideRun, runMonitor, runStream, runChild, runExitCode,
                   runFlag, runCalls, runRaised>>

NextRun ==
    \/ RunEnter
    \/ RunPopen
    \/ RunRescopeStop
    \/ RunRescopeStart
    \/ RunWait
    \/ RunExit
    \/ RunReturn

(***************************************************************************)
(* Claims about run_subprocess_with_monitoring.                            *)
(***************************************************************************)
\* C30: run_subprocess_with_monitoring never returns while its monitor is in
\* Monitoring state: on every path, normal completion or an exception from
\* launching or reading the subprocess, each start_monitoring it issued has
\* been followed by a stop_monitoring before the function returns.
C30_StoppedBeforeReturn ==
    runPc = "returned" =>
        /\ ~runFlag
        /\ \A i \in DOMAIN runCalls :
               runCalls[i].call = "start" =>
                   \E j \in DOMAIN runCalls : j > i /\ runCalls[j].call = "stop"

\* the function returned -1 after reading the child raised, with the
\* system-wide start and the restart with the child PID both issued
C30_Witness ==
    /\ runPc = "returned"
    /\ runResult = <<-1>>
    /\ runChild = "read_raises"
    /\ Len(runCalls) = 4
    /\ runCalls[1] = [call |-> "start", process_pid |-> "None"]
    /\ runCalls[3] = [call |-> "start", process_pid |-> "pid"]

(***************************************************************************)
(* Specifications.                                                         *)
(***************************************************************************)
\* no function of the program is being called
PureIdle == StatIdle /\ IniIdle /\ ValIdle /\ SumIdle /\ RunIdle

\* no object of the program is in use
ProgIdle == GenIdle /\ CmdIdle /\ MonIdle /\ SelIdle /\ ColIdle

\* calls of generate_scenarios on every options map and cap of the model
InitGenOnly == InitGen /\ CmdIdle /\ MonIdle /\ SelIdle /\ ColIdle /\ PureIdle

SpecGen == InitGenOnly /\ [][NextGen]_vars

\* runs of the scenarios command, with a concurrent reader of the manifest
InitCmdOnly == InitCmd /\ GenIdle /\ MonIdle /\ SelIdle /\ ColIdle /\ PureIdle

SpecCmd == InitCmdOnly /\ [][NextCmd]_vars

\* one monitor, its caller and its sampling threads
InitMonOnly == InitMon /\ GenIdle /\ CmdIdle /\ SelIdle /\ ColIdle /\ PureIdle

SpecMon == InitMonOnly /\ [][NextMon]_vars

\* metadata selections on every log, and target year of the model
InitSelOnly == InitSel /\ GenIdle /\ CmdIdle /\ MonIdle /\ ColIdle /\ PureIdle

SpecSel == InitSelOnly /\ [][NextSel]_vars

\* one sample taken under every combination of failing psutil calls
InitColOnly == InitCol /\ GenIdle /\ CmdIdle /\ MonIdle /\ SelIdle /\ PureIdle

SpecCol == InitColOnly /\ [][NextCol]_vars

\* the summary of every list of samples of the model
InitStatOnly == InitStat /\ ProgIdle /\ IniIdle /\ ValIdle /\ SumIdle /\ RunIdle

SpecStat == InitStatOnly /\ [][NextStat]_vars

\* up to two patches of every template of the model
InitIniOnly == InitIni /\ ProgIdle /\ StatIdle /\ ValIdle /\ SumIdle /\ RunIdle

SpecIni == InitIniOnly /\ [][NextIni]_vars

\* validation of every dict of names and values of the model
InitValOnly == InitVal /\ ProgIdle /\ StatIdle /\ IniIdle /\ SumIdle /\ RunIdle

SpecVal == InitValOnly /\ [][NextVal]_vars

\* invocations that record the checksum of every configuration of the model
InitSumOnly == InitSum /\ ProgIdle /\ StatIdle /\ IniIdle /\ ValIdle /\ RunIdle

SpecSum == InitSumOnly /\ [][NextSum]_vars

\* calls of run_subprocess_with_monitoring, with and without a monitor, on
\* every child of the model
InitRunOnly == InitRun /\ ProgIdle /\ StatIdle /\ IniIdle /\ ValIdle /\ SumIdle

SpecRun == InitRunOnly /\ [][NextRun]_vars

====
